---------------------------- MODULE Spec2Model ----------------------------
(***************************************************************************)
(* A model of the event normalization and analytics pipeline of the        *)
(* uniswap-v3-position-analysis repository:                                *)
(*   - analyze_position_creators.py: extract_position_creators_from_       *)
(*     response, analyze_top_creators (a fold, one event per step) and     *)
(*     rank_creators;                                                      *)
(*   - process_mint_burn.py: process_mint_events_with_decimals;            *)
(*   - process_positions.py: process_positions_with_decimals.              *)
(*                                                                         *)
(* Data representation.  A Python str that carries data (an address, a     *)
(* bigInteger, a timestamp, a USD amount) is a sequence of one-character   *)
(* strings, so that int(), float(), "<" and f"{a}/{b}" are computed the    *)
(* way Python computes them.  None is the one-element sequence <<"None">>, *)
(* which is no Python string because "None" is not one character.  Field   *)
(* names, JSON keys and value tags are plain TLA+ strings.  An optional    *)
(* int (a tick) is the set {} for None and {n} for the int n.              *)
(***************************************************************************)
EXTENDS Integers, Sequences, FiniteSets, TLC

VARIABLES
    pc,               \* position of the run
    pipeline,         \* which run this is: "creators", "mint" or "positions"
    response,         \* creators: the Calls list of the response handed to extract
    creators_data,    \* creators: the list returned by extract_position_creators_from_response
    idx,              \* creators: number of events analyze_top_creators has folded
    creator_stats,    \* creators: the stats dict, a sequence of <<address, stats>> in insertion order
    mutated,          \* creators: a caller changed a unique_pairs collection after the analysis
    top_n,            \* creators: the top_n handed to rank_creators
    rankings,         \* creators: the dict returned by rank_creators
    include_realtime, \* mint/positions: the include_realtime parameter
    all_events,       \* mint/positions: all_events / all_positions
    token_addresses,  \* mint/positions: the addresses sent to get_token_decimals
    token_decimals,   \* mint/positions: the lookup built by create_token_decimals_lookup
    processed,        \* mint/positions: the returned list, or NoResult for "return" / a raise
    stages,           \* the stages of the run that have been entered, by name
    inputs,           \* a function called on its own: its arguments
    output,           \* a function called on its own: what it returned, or NoResult
    responses         \* mint/positions: historical_response, then realtime_response, once assigned

vars == <<pc, pipeline, response, creators_data, idx, creator_stats, mutated, top_n, rankings,
          include_realtime, all_events, token_addresses, token_decimals, processed,
          stages, inputs, output, responses>>

creatorVars == <<response, creators_data, idx, creator_stats, mutated, top_n, rankings>>
pipelineVars ==
    <<pipeline, include_realtime, all_events, token_addresses, token_decimals, processed, responses>>
functionVars == <<inputs, output>>

-----------------------------------------------------------------------------
(* Bounds of the model *)

\* longest Calls list of the creators response
MaxCalls == 3
\* longest Calls list of a historical response
MaxHistorical == 2
\* longest Calls list of a real-time response
MaxRealtime == 1
\* largest top_n handed to rank_creators
MaxTopN == 4

-----------------------------------------------------------------------------
(* Python values *)

None == <<"None">>
NoInt == {}
SomeInt(n) == {n}
IntOf(o) == CHOOSE n \in o : TRUE

\* Python truthiness of an optional str: None and "" are falsy
Truthy(s) == s # None /\ s # <<>>

Digits == {"0", "1", "2", "3", "4", "5", "6", "7", "8", "9"}

DigitVal(c) ==
    CASE c = "0" -> 0 [] c = "1" -> 1 [] c = "2" -> 2 [] c = "3" -> 3 [] c = "4" -> 4
      [] c = "5" -> 5 [] c = "6" -> 6 [] c = "7" -> 7 [] c = "8" -> 8 [] c = "9" -> 9

\* ord(c) of the characters the inputs are written in
CharCode(c) ==
    CASE c \in Digits -> 48 + DigitVal(c)
      [] c = "-" -> 45 [] c = "." -> 46 [] c = "/" -> 47
      [] c = "A" -> 65 [] c = "B" -> 66 [] c = "C" -> 67 [] c = "Q" -> 81
      [] c = "X" -> 88 [] c = "Y" -> 89 [] c = "Z" -> 90 [] c = "x" -> 120

RECURSIVE DigitsVal(_)
DigitsVal(ds) ==
    IF ds = <<>> THEN 0
    ELSE 10 * DigitsVal(SubSeq(ds, 1, Len(ds) - 1)) + DigitVal(ds[Len(ds)])

AllDigits(ds) == \A i \in 1..Len(ds) : ds[i] \in Digits

Unsigned(s) == IF Len(s) > 0 /\ s[1] = "-" THEN Tail(s) ELSE s

\* int(s) succeeds: an optional sign and at least one digit (None: TypeError, else
\* ValueError).  The inputs are written with digits, "-", "." and letters; the
\* blanks, "+" and "_" that int() also accepts do not occur in them.
IntParses(s) ==
    /\ s # None
    /\ Len(Unsigned(s)) > 0
    /\ AllDigits(Unsigned(s))

\* the value of int(s) when it succeeds
IntValue(s) ==
    IF Len(s) > 0 /\ s[1] = "-" THEN 0 - DigitsVal(Tail(s)) ELSE DigitsVal(s)

DotAt(s) == IF \E i \in 1..Len(s) : s[i] = "." THEN CHOOSE i \in 1..Len(s) : s[i] = "." ELSE 0
WholePart(s) == IF DotAt(s) = 0 THEN s ELSE SubSeq(s, 1, DotAt(s) - 1)
FracPart(s) == IF DotAt(s) = 0 THEN <<>> ELSE SubSeq(s, DotAt(s) + 1, Len(s))

\* float(s) succeeds: sign, digits, at most one ".", at least one digit
FloatParses(s) ==
    /\ s # None
    /\ AllDigits(WholePart(Unsigned(s)))
    /\ AllDigits(FracPart(Unsigned(s)))
    /\ Len(WholePart(Unsigned(s))) + Len(FracPart(Unsigned(s))) > 0

\* A float is counted in halves.  The USD amounts of the inputs are multiples of
\* 0.5 (fraction "", "0" or "5").  Below 2^52 an IEEE-754 double represents every
\* multiple of 0.5 and adds them exactly; from 2^53 on it does not.  A double
\* h * 2^53 + l / 2 with h > 0 and l small is written h * FloatOffset + l, which
\* keeps the order of the values.
FloatOffset == 1048576
FloatHigh(x) == (x + FloatOffset \div 2) \div FloatOffset
FloatLow(x) == x - FloatHigh(x) * FloatOffset

RECURSIVE PowerOfTwoBelow(_)
PowerOfTwoBelow(h) == IF h < 2 THEN 1 ELSE 2 * PowerOfTwoBelow(h \div 2)

\* the distance, in halves, of neighbouring doubles around h * 2^53 + l / 2
FloatSpacing(h, l) ==
    IF h = 0 THEN 1
    ELSE IF l < 0 /\ h = PowerOfTwoBelow(h) THEN 2 * PowerOfTwoBelow(h)
    ELSE 4 * PowerOfTwoBelow(h)

\* round to nearest, ties to even
RoundHalfEven(l, spacing) ==
    LET q == l \div spacing
        r == l - q * spacing
    IN IF 2 * r < spacing THEN q * spacing
       ELSE IF 2 * r > spacing THEN (q + 1) * spacing
       ELSE IF q % 2 = 0 THEN q * spacing ELSE (q + 1) * spacing

\* a + b of two floats
FloatAdd(a, b) ==
    LET h == FloatHigh(a) + FloatHigh(b)
        l == FloatLow(a) + FloatLow(b)
    IN h * FloatOffset + RoundHalfEven(l, FloatSpacing(h, l))

\* the digits of 2^53
TwoTo53 == <<"9", "0", "0", "7", "1", "9", "9", "2", "5", "4", "7", "4", "0", "9", "9", "2">>

\* The value of float(s), in half units.
FloatHalves(s) ==
    LET u == Unsigned(s)
        f == FracPart(u)
        half == IF Len(f) > 0 /\ f[1] = "5" THEN 1 ELSE 0
        mag == IF WholePart(u) = TwoTo53
               THEN FloatAdd(FloatOffset, half)
               ELSE 2 * DigitsVal(WholePart(u)) + half
    IN IF Len(s) > 0 /\ s[1] = "-" THEN 0 - mag ELSE mag

\* a < b for Python str: lexicographic by character code
RECURSIVE StrLess(_, _)
StrLess(a, b) ==
    IF b = <<>> THEN FALSE
    ELSE IF a = <<>> THEN TRUE
    ELSE IF a[1] = b[1] THEN StrLess(Tail(a), Tail(b))
    ELSE CharCode(a[1]) < CharCode(b[1])

\* a tagged value {tag: val}; {} is Untagged
Val(tag, v) == [tag |-> tag, val |-> v]
Untagged == Val("none", None)
Addr(s) == Val("address", s)
Big(s) == Val("bigInteger", s)

\* the elements of a sequence
Range(s) == {s[i] : i \in 1..Len(s)}

\* all sequences over S of length at most n
SeqsUpTo(S, n) == UNION {[1..k -> S] : k \in 0..n}


-----------------------------------------------------------------------------
(* The DecodedCall records of a response *)

Ret(name, v) == [Name |-> name, Value |-> v]
Arg(i, name, v) == [Index |-> i, Name |-> name, Value |-> v]

Call(from, usd, time, rets, args) ==
    [Transaction |-> [From |-> from, Hash |-> <<"x">>, ValueInUSD |-> usd],
     Block |-> [Number |-> <<"1">>, Time |-> time],
     Returns |-> rets,
     Arguments |-> args]

\* the slip of converting on the way: int(value['bigInteger']) where the string is
\* kept.  The number is told apart from the string of its digits by its first element.
RECURSIVE ReturnNamedAsNumber(_, _, _)
ReturnNamedAsNumber(returns, name, tag) ==
    IF returns = <<>> THEN None
    ELSE LET last == returns[Len(returns)]
         IN IF last.Name = name /\ last.Value.tag = tag
            THEN (IF tag = "bigInteger" /\ IntParses(last.Value.val)
                  THEN <<"number">> \o last.Value.val
                  ELSE last.Value.val)
            ELSE ReturnNamedAsNumber(SubSeq(returns, 1, Len(returns) - 1), name, tag)

\* the last item of a Returns list with this name and this value variant
RECURSIVE ReturnNamed(_, _, _)
ReturnNamed(returns, name, tag) ==
    IF returns = <<>> THEN None
    ELSE LET last == returns[Len(returns)]
         IN IF last.Name = name /\ last.Value.tag = tag
            THEN last.Value.val
            ELSE ReturnNamed(SubSeq(returns, 1, Len(returns) - 1), name, tag)

HasArg(arguments, index, tag) ==
    \E i \in 1..Len(arguments) :
        arguments[i].Index = index /\ arguments[i].Value.tag = tag

\* the last item of an Arguments list with this index and this value variant
RECURSIVE ArgAt(_, _, _)
ArgAt(arguments, index, tag) ==
    IF arguments = <<>> THEN None
    ELSE LET last == arguments[Len(arguments)]
         IN IF last.Index = index /\ last.Value.tag = tag
            THEN last.Value.val
            ELSE ArgAt(SubSeq(arguments, 1, Len(arguments) - 1), index, tag)

\* int(value['bigInteger']) of the tick at index 3 or 4 raises ValueError
TickRaises(arguments) ==
    \E i \in 1..Len(arguments) :
        /\ arguments[i].Index \in {3, 4}
        /\ arguments[i].Value.tag = "bigInteger"
        /\ ~IntParses(arguments[i].Value.val)

\* tick_lower / tick_upper: int() of the last bigInteger at the index, else None
TickAt(arguments, index) ==
    IF HasArg(arguments, index, "bigInteger")
    THEN SomeInt(IntValue(ArgAt(arguments, index, "bigInteger")))
    ELSE NoInt

-----------------------------------------------------------------------------
(* extract_position_creators_from_response *)

\* the creation event of one call that has a sender
CreatorData(call) ==
    [creator_address |-> call.Transaction.From,
     token_id |-> ReturnNamed(call.Returns, "tokenId", "bigInteger"),
     token0_address |-> ArgAt(call.Arguments, 0, "address"),
     token1_address |-> ArgAt(call.Arguments, 1, "address"),
     fee |-> ArgAt(call.Arguments, 2, "bigInteger"),
     tick_lower |-> TickAt(call.Arguments, 3),
     tick_upper |-> TickAt(call.Arguments, 4),
     liquidity |-> ReturnNamed(call.Returns, "liquidity", "bigInteger"),
     amount0 |-> ReturnNamed(call.Returns, "amount0", "bigInteger"),
     amount1 |-> ReturnNamed(call.Returns, "amount1", "bigInteger"),
     transaction_hash |-> call.Transaction.Hash,
     transaction_value_usd |-> call.Transaction.ValueInUSD,
     block_number |-> call.Block.Number,
     timestamp |-> call.Block.Time]

\* the test "creator_address is None" for "not creator_address"
HasSenderNotNone(call) == call.Transaction.From # None

\* "if not creator_address: continue"
HasSender(call) == Truthy(call.Transaction.From)

\* the loop raises at the first call with a sender and an unparseable tick
ExtractRaises(calls) ==
    \E i \in 1..Len(calls) : HasSender(calls[i]) /\ TickRaises(calls[i].Arguments)

RECURSIVE ExtractCreators(_)
ExtractCreators(calls) ==
    IF calls = <<>> THEN <<>>
    ELSE LET rest == ExtractCreators(SubSeq(calls, 1, Len(calls) - 1))
             call == calls[Len(calls)]
         IN IF HasSender(call) THEN Append(rest, CreatorData(call)) ELSE rest

-----------------------------------------------------------------------------
(* analyze_top_creators *)

\* the dict creator_stats: a sequence of <<key, value>> in insertion order
Keys(d) == [i \in 1..Len(d) |-> d[i][1]]
HasKey(d, k) == \E i \in 1..Len(d) : d[i][1] = k
Get(d, k) == d[CHOOSE i \in 1..Len(d) : d[i][1] = k][2]
Put(d, k, v) ==
    IF HasKey(d, k)
    THEN [i \in 1..Len(d) |-> IF d[i][1] = k THEN <<k, v>> ELSE d[i]]
    ELSE Append(d, <<k, v>>)

\* the defaultdict's factory
NewStats ==
    [total_positions |-> 0,
     total_liquidity |-> 0,
     total_usd_value |-> 0,
     unique_pairs |-> {},
     fee_tiers |-> <<>>,
     positions |-> <<>>,
     first_position_time |-> None,
     last_position_time |-> None]

\* f"{token0_address}/{token1_address}"
PairKey(ev) == ev.token0_address \o <<"/">> \o ev.token1_address

\* the slip "= 1" for "+= 1" on the tier
BumpFeeReset(tiers, fee) == [f \in DOMAIN tiers \cup {fee} |-> IF f = fee THEN 1 ELSE tiers[f]]

\* stats['fee_tiers'][fee] += 1 on a defaultdict(int)
BumpFee(tiers, fee) ==
    IF fee \in DOMAIN tiers
    THEN [tiers EXCEPT ![fee] = @ + 1]
    ELSE [f \in DOMAIN tiers \cup {fee} |-> IF f = fee THEN 1 ELSE tiers[f]]

\* the slip "= 1" for "+= 1"
StatsPositionsReset(stats, ev) == 1

\* stats['total_positions'] += 1
StatsPositions(stats, ev) == stats.total_positions + 1

\* the slip "=" for "+="
StatsLiquidityAssign(stats, ev) ==
    IF Truthy(ev.liquidity) /\ IntParses(ev.liquidity)
    THEN IntValue(ev.liquidity)
    ELSE stats.total_liquidity

\* "if liquidity: try: total_liquidity += int(liquidity) except: pass"
StatsLiquidity(stats, ev) ==
    IF Truthy(ev.liquidity) /\ IntParses(ev.liquidity)
    THEN stats.total_liquidity + IntValue(ev.liquidity)
    ELSE stats.total_liquidity

\* "if usd_value: try: total_usd_value += float(usd_value) except: pass"
StatsUsdValue(stats, ev) ==
    IF Truthy(ev.transaction_value_usd) /\ FloatParses(ev.transaction_value_usd)
    THEN FloatAdd(stats.total_usd_value, FloatHalves(ev.transaction_value_usd))
    ELSE stats.total_usd_value

\* the pair added without the test that both addresses are there
StatsPairsUnguarded(stats, ev) == stats.unique_pairs \cup {PairKey(ev)}

\* "if token0_address and token1_address: unique_pairs.add(pair)"
StatsPairs(stats, ev) ==
    IF Truthy(ev.token0_address) /\ Truthy(ev.token1_address)
    THEN stats.unique_pairs \cup {PairKey(ev)}
    ELSE stats.unique_pairs

\* "if fee: fee_tiers[fee] += 1"
StatsFeeTiers(stats, ev) ==
    IF Truthy(ev.fee) THEN BumpFee(stats.fee_tiers, ev.fee) ELSE stats.fee_tiers

\* the slip of keeping the first timestamp seen, with no comparison
StatsFirstTimeFirstSeen(stats, ev) ==
    IF Truthy(ev.timestamp) /\ ~Truthy(stats.first_position_time)
    THEN ev.timestamp ELSE stats.first_position_time

\* "if timestamp: if not first or timestamp < first: first = timestamp"
StatsFirstTime(stats, ev) ==
    IF Truthy(ev.timestamp) /\ (~Truthy(stats.first_position_time)
                                \/ StrLess(ev.timestamp, stats.first_position_time))
    THEN ev.timestamp ELSE stats.first_position_time

\* the slip of dropping "not stats['last_position_time'] or": None is never replaced
StatsLastTimeNoInit(stats, ev) ==
    IF Truthy(ev.timestamp) /\ Truthy(stats.last_position_time)
                            /\ StrLess(stats.last_position_time, ev.timestamp)
    THEN ev.timestamp ELSE stats.last_position_time

\* "if timestamp: if not last or timestamp > last: last = timestamp"
StatsLastTime(stats, ev) ==
    IF Truthy(ev.timestamp) /\ (~Truthy(stats.last_position_time)
                                \/ StrLess(stats.last_position_time, ev.timestamp))
    THEN ev.timestamp ELSE stats.last_position_time

\* the slip of "positions.insert(0, creator_data)" for "positions.append"
FoldStatsPrepend(stats, ev) ==
    [total_positions |-> StatsPositions(stats, ev),
     total_liquidity |-> StatsLiquidity(stats, ev),
     total_usd_value |-> StatsUsdValue(stats, ev),
     unique_pairs |-> StatsPairs(stats, ev),
     fee_tiers |-> StatsFeeTiers(stats, ev),
     positions |-> <<ev>> \o stats.positions,
     first_position_time |-> StatsFirstTime(stats, ev),
     last_position_time |-> StatsLastTime(stats, ev)]

\* one iteration of the loop over creators_data, on the creator's record
FoldStats(stats, ev) ==
    [total_positions |-> StatsPositions(stats, ev),
     total_liquidity |-> StatsLiquidity(stats, ev),
     total_usd_value |-> StatsUsdValue(stats, ev),
     unique_pairs |-> StatsPairs(stats, ev),
     fee_tiers |-> StatsFeeTiers(stats, ev),
     positions |-> Append(stats.positions, ev),
     first_position_time |-> StatsFirstTime(stats, ev),
     last_position_time |-> StatsLastTime(stats, ev)]

\* the slip of "creator_stats[creator_address] = <a new record>" in every iteration
FoldEventFresh(d, ev) == Put(d, ev.creator_address, FoldStats(NewStats, ev))

\* one iteration of the loop over creators_data, on the dict
FoldEvent(d, ev) ==
    LET k == ev.creator_address
        stats == IF HasKey(d, k) THEN Get(d, k) ELSE NewStats
    IN Put(d, k, FoldStats(stats, ev))

\* "Convert sets to counts": unique_pairs_count is stored, unique_pairs becomes a
\* list of the set's elements (in no specified order: kept as the set of them)
WithPairCount(stats) ==
    [total_positions |-> stats.total_positions,
     total_liquidity |-> stats.total_liquidity,
     total_usd_value |-> stats.total_usd_value,
     unique_pairs |-> stats.unique_pairs,
     fee_tiers |-> stats.fee_tiers,
     positions |-> stats.positions,
     first_position_time |-> stats.first_position_time,
     last_position_time |-> stats.last_position_time,
     unique_pairs_count |-> Cardinality(stats.unique_pairs)]

ConvertSets(d) == [i \in 1..Len(d) |-> <<d[i][1], WithPairCount(d[i][2])>>]

-----------------------------------------------------------------------------
(* rank_creators *)

\* sorted without reverse=True
InsertAsc(r, x) ==
    LET n == Cardinality({i \in 1..Len(r) : r[i].key <= x.key})
    IN SubSeq(r, 1, n) \o <<x>> \o SubSeq(r, n + 1, Len(r))

\* a descending sort that puts an item before the items of equal key
InsertDescUnstable(r, x) ==
    LET n == Cardinality({i \in 1..Len(r) : r[i].key > x.key})
    IN SubSeq(r, 1, n) \o <<x>> \o SubSeq(r, n + 1, Len(r))

\* sorted(...) is stable, and with reverse=True keeps equal keys in their
\* original order: an item goes after every item whose key is >= its own
InsertDesc(r, x) ==
    LET n == Cardinality({i \in 1..Len(r) : r[i].key >= x.key})
    IN SubSeq(r, 1, n) \o <<x>> \o SubSeq(r, n + 1, Len(r))

RECURSIVE SortedDesc(_)
SortedDesc(items) ==
    IF items = <<>> THEN <<>>
    ELSE InsertDesc(SortedDesc(SubSeq(items, 1, Len(items) - 1)), items[Len(items)])

\* lst[:n] for n >= 0
Take(lst, n) == SubSeq(lst, 1, IF n < Len(lst) THEN n ELSE Len(lst))

\* by_unique_pairs keyed on len(unique_pairs) at ranking time
MetricOfLive(stats, metric) ==
    CASE metric = "by_positions" -> stats.total_positions
      [] metric = "by_liquidity" -> stats.total_liquidity
      [] metric = "by_usd_value" -> stats.total_usd_value
      [] metric = "by_unique_pairs" -> Cardinality(stats.unique_pairs)

\* x[1][metric] of sorted's key function
MetricOf(stats, metric) ==
    CASE metric = "by_positions" -> stats.total_positions
      [] metric = "by_liquidity" -> stats.total_liquidity
      [] metric = "by_usd_value" -> stats.total_usd_value
      [] metric = "by_unique_pairs" -> stats.unique_pairs_count

Metrics == {"by_positions", "by_liquidity", "by_usd_value", "by_unique_pairs"}

\* sorted(creators_list, key=..., reverse=True)[:top_n]
RankBy(d, metric, n) ==
    LET keyed == [i \in 1..Len(d) |-> [key |-> MetricOf(d[i][2], metric), item |-> d[i]]]
        sorted == SortedDesc(keyed)
    IN Take([i \in 1..Len(sorted) |-> sorted[i].item], n)

RankCreators(d, n) == [m \in Metrics |-> RankBy(d, m, n)]

-----------------------------------------------------------------------------
(* The creators run: extract, then the fold, then the ranking *)

\* the arguments of a mint call: token0, token1, fee, tickLower, tickUpper
MintArgs(t0, t1, fee, lo, hi) ==
    <<Arg(0, "token0", t0), Arg(1, "token1", t1), Arg(2, "fee", fee),
      Arg(3, "tickLower", lo), Arg(4, "tickUpper", hi)>>

MintReturns(liq) ==
    <<Ret("tokenId", Big(<<"7">>)), Ret("liquidity", liq),
      Ret("amount0", Big(<<"1">>)), Ret("amount1", Big(<<"2">>))>>

\* The call records a creators response is drawn from: three senders with
\* numeric liquidity and USD values (two of them on the same pair), a sender with
\* unparseable liquidity and USD value and no token1 address, a sender with no
\* liquidity return, no USD value, no fee and no timestamp, calls with a None
\* and with an empty sender, a call whose tick does not parse, and a call
\* with an empty timestamp.
CreatorCalls ==
    { Call(<<"X">>, <<"1", "0", ".", "0">>, <<"2">>, MintReturns(Big(<<"1", "0", "0">>)),
           MintArgs(Addr(<<"A">>), Addr(<<"B">>), Big(<<"5", "0", "0">>),
                    Big(<<"-", "1", "0">>), Big(<<"1", "0">>))),
      Call(<<"X">>, <<"5", ".", "0">>, <<"1">>, MintReturns(Big(<<"5", "0">>)),
           MintArgs(Addr(<<"A">>), Addr(<<"B">>), Big(<<"3", "0", "0", "0">>),
                    Big(<<"0">>), Big(<<"1", "0">>))),
      Call(<<"Y">>, <<"2", "0", ".", "0">>, <<"3">>, MintReturns(Big(<<"2", "0", "0">>)),
           MintArgs(Addr(<<"B">>), Addr(<<"A">>), Big(<<"5", "0", "0">>),
                    Big(<<"-", "1", "0">>), Big(<<"1", "0">>))),
      Call(<<"Y">>, <<"x">>, <<"1", "0">>, MintReturns(Big(<<"x">>)),
           MintArgs(Addr(<<"A">>), Big(<<"1">>), Big(<<"5", "0", "0">>),
                    Big(<<"0">>), Untagged)),
      Call(<<"Z">>, None, None, <<Ret("liquidity", Addr(<<"A">>))>>,
           <<Arg(0, "token0", Addr(<<"A">>)), Arg(1, "token1", Addr(<<"C">>))>>),
      Call(None, <<"1", "0", ".", "0">>, <<"2">>, MintReturns(Big(<<"1", "0", "0">>)),
           MintArgs(Addr(<<"A">>), Addr(<<"B">>), Big(<<"5", "0", "0">>),
                    Big(<<"x">>), Big(<<"1", "0">>))),
      Call(<<>>, <<"5", ".", "0">>, <<"1">>, MintReturns(Big(<<"5", "0">>)),
           MintArgs(Addr(<<"A">>), Addr(<<"B">>), Big(<<"5", "0", "0">>),
                    Big(<<"0">>), Big(<<"1", "0">>))),
      Call(<<"X">>, <<"5", ".", "0">>, <<"1">>, MintReturns(Big(<<"5", "0">>)),
           MintArgs(Addr(<<"A">>), Addr(<<"B">>), Big(<<"5", "0", "0">>),
                    Big(<<"0">>), Big(<<"x">>))),
      Call(<<"X">>, <<"5", ".", "0">>, <<>>, MintReturns(Big(<<"5", "0">>)),
           MintArgs(Addr(<<"A">>), Addr(<<"B">>), Big(<<"3", "0", "0", "0">>),
                    Big(<<"0">>), Big(<<"1", "0">>))) }

NoResult == <<"NoResult">>

InitCreators ==
    /\ pc = "start"
    /\ pipeline = "creators"
    /\ response \in SeqsUpTo(CreatorCalls, MaxCalls)
    /\ creators_data = <<>>
    /\ idx = 0
    /\ creator_stats = <<>>
    /\ mutated = FALSE
    /\ top_n = 0
    /\ rankings = [m \in Metrics |-> <<>>]
    /\ include_realtime = FALSE
    /\ responses = <<>>
    /\ all_events = <<>>
    /\ token_addresses = {}
    /\ token_decimals = <<>>
    /\ processed = NoResult
    /\ stages = {}
    /\ inputs = NoResult
    /\ output = NoResult

\* extract_position_creators_from_response(response): the list, or the ValueError
Extract ==
    /\ pc = "start"
    /\ pipeline = "creators"
    /\ IF ExtractRaises(response)
       THEN pc' = "raised" /\ UNCHANGED creators_data
       ELSE pc' = "extracted" /\ creators_data' = ExtractCreators(response)
    /\ UNCHANGED <<response, idx, creator_stats, mutated, top_n, rankings>>
    /\ UNCHANGED pipelineVars
    /\ stages' = stages \cup {"extraction"}
    /\ UNCHANGED functionVars

\* analyze_top_creators: one iteration of "for creator_data in creators_data"
AnalyzeStep ==
    /\ pc = "extracted"
    /\ idx < Len(creators_data)
    /\ creator_stats' = FoldEvent(creator_stats, creators_data[idx + 1])
    /\ idx' = idx + 1
    /\ UNCHANGED <<pc, response, creators_data, mutated, top_n, rankings>>
    /\ UNCHANGED pipelineVars
    /\ stages' = stages \cup {"aggregation"}
    /\ UNCHANGED functionVars

\* analyze_top_creators: the closing loop over creator_stats.items() and the return
AnalyzeFinish ==
    /\ pc = "extracted"
    /\ idx = Len(creators_data)
    /\ creator_stats' = ConvertSets(creator_stats)
    /\ pc' = "analyzed"
    /\ UNCHANGED <<response, creators_data, idx, mutated, top_n, rankings>>
    /\ UNCHANGED pipelineVars
    /\ stages' = stages \cup {"aggregation"}
    /\ UNCHANGED functionVars

\* The caller owns the returned dict: before it calls rank_creators it may change
\* a unique_pairs collection (here: append one more pair to one record's list).
AppendPair(stats) == [stats EXCEPT !.unique_pairs = @ \cup {<<"Q", "/", "Q">>}]

MutateStats ==
    /\ pc = "analyzed"
    /\ ~mutated
    /\ \E i \in 1..Len(creator_stats) :
           creator_stats' =
               [creator_stats EXCEPT ![i] = <<creator_stats[i][1], AppendPair(creator_stats[i][2])>>]
    /\ mutated' = TRUE
    /\ UNCHANGED <<pc, response, creators_data, idx, top_n, rankings>>
    /\ UNCHANGED pipelineVars
    /\ UNCHANGED stages
    /\ UNCHANGED functionVars

\* the slip of sorting the map itself: the dict is rebuilt in by_positions order
RankInPlace ==
    /\ pc = "analyzed"
    /\ \E n \in 1..MaxTopN :
           /\ top_n' = n
           /\ rankings' = RankCreators(creator_stats, n)
    /\ creator_stats' = RankBy(creator_stats, "by_positions", Len(creator_stats))
    /\ pc' = "ranked"
    /\ UNCHANGED <<response, creators_data, idx, mutated>>
    /\ UNCHANGED pipelineVars
    /\ stages' = stages \cup {"ranking"}
    /\ UNCHANGED functionVars

\* rank_creators(creator_stats, top_n) with a positive top_n
Rank ==
    /\ pc = "analyzed"
    /\ \E n \in 1..MaxTopN :
           /\ top_n' = n
           /\ rankings' = RankCreators(creator_stats, n)
    /\ pc' = "ranked"
    /\ UNCHANGED <<response, creators_data, idx, creator_stats, mutated>>
    /\ UNCHANGED pipelineVars
    /\ stages' = stages \cup {"ranking"}
    /\ UNCHANGED functionVars

NextCreators == Extract \/ AnalyzeStep \/ AnalyzeFinish \/ MutateStats \/ Rank

SpecCreators == InitCreators /\ [][NextCreators]_vars

-----------------------------------------------------------------------------
(* Token decimals: create_token_decimals_lookup and the lookups with defaults *)

\* Transfer.Currency of one transfer record; a missing key reads as None
CurrencyNamed(address, decimals, symbol, name) ==
    [SmartContract |-> address, Decimals |-> decimals, Symbol |-> symbol, Name |-> name]

Currency(address, decimals, symbol) == CurrencyNamed(address, decimals, symbol, symbol)

\* the value written under the address
LookupEntry(cur) ==
    [decimals |-> IntOf(cur.Decimals), symbol |-> cur.Symbol, name |-> cur.Name]

\* the slip "if address and decimals:": a decimal count of 0 is falsy
LookupStepTruthy(lookup, cur) ==
    IF Truthy(cur.SmartContract) /\ cur.Decimals # NoInt /\ IntOf(cur.Decimals) # 0
    THEN Put(lookup, cur.SmartContract, LookupEntry(cur))
    ELSE lookup

\* lookup.setdefault(address, ...) for lookup[address] = ...: the first record wins
LookupStepFirstWins(lookup, cur) ==
    IF Truthy(cur.SmartContract) /\ cur.Decimals # NoInt /\ ~HasKey(lookup, cur.SmartContract)
    THEN Put(lookup, cur.SmartContract, LookupEntry(cur))
    ELSE lookup

\* one iteration of "for transfer in transfers":
\* "if address and decimals is not None: lookup[address] = {...}"
LookupStep(lookup, cur) ==
    IF Truthy(cur.SmartContract) /\ cur.Decimals # NoInt
    THEN Put(lookup, cur.SmartContract, LookupEntry(cur))
    ELSE lookup

\* create_token_decimals_lookup of process_positions.py, on the Currency records
\* of the Transfers of the response, in order
RECURSIVE CreateLookup(_)
CreateLookup(transfers) ==
    IF transfers = <<>> THEN <<>>
    ELSE LookupStep(CreateLookup(SubSeq(transfers, 1, Len(transfers) - 1)),
                    transfers[Len(transfers)])

\* one iteration of the loop of extract_token_decimals.py
FileLookupStep(lookup, cur) ==
    IF Truthy(cur.SmartContract) /\ cur.Decimals # NoInt
    THEN Put(lookup, cur.SmartContract,
             [decimals |-> IntOf(cur.Decimals), symbol |-> cur.Symbol, name |-> cur.Name])
    ELSE lookup

\* create_token_decimals_lookup of extract_token_decimals.py, on the Currency
\* records of the Transfers that json.load reads from the file
RECURSIVE CreateLookupOfFile(_)
CreateLookupOfFile(transfers) ==
    IF transfers = <<>> THEN <<>>
    ELSE FileLookupStep(CreateLookupOfFile(SubSeq(transfers, 1, Len(transfers) - 1)),
                        transfers[Len(transfers)])

Unknown == <<"U", "n", "k", "n", "o", "w", "n">>
DefaultDecimals == 18

\* a miss that yields decimals 0
DecimalsOrZero(td, address) ==
    IF HasKey(td, address) THEN Get(td, address).decimals ELSE 0

\* token_decimals.get(address, {}).get('decimals', 18)
DecimalsFor(td, address) ==
    IF HasKey(td, address) THEN Get(td, address).decimals ELSE DefaultDecimals

\* token_decimals.get(address, {}).get('symbol', 'Unknown')
SymbolFor(td, address) ==
    IF HasKey(td, address) THEN Get(td, address).symbol ELSE Unknown

TokenInfo(td, address) ==
    [address |-> address, symbol |-> SymbolFor(td, address), decimals |-> DecimalsFor(td, address)]

\* n zeros
Zeros(n) == [i \in 1..n |-> "0"]

\* the digits of 10^n
PowerOfTen(n) == <<"1">> \o Zeros(n)

\* the number of characters "0" a digit string starts with
LeadingZeros(ds) ==
    Cardinality({k \in 1..Len(ds) : \A i \in 1..k : ds[i] = "0"})

\* the number of characters "0" a digit string ends with
TrailingZeros(ds) ==
    Cardinality({k \in 1..Len(ds) : \A i \in (Len(ds) - k + 1)..Len(ds) : ds[i] = "0"})

\* a digit string without its leading zeros: the digits of the int it denotes
StripZeros(ds) ==
    IF LeadingZeros(ds) = Len(ds) THEN <<"0">>
    ELSE SubSeq(ds, LeadingZeros(ds) + 1, Len(ds))

\* a < b for two non-negative ints given by their digits
DigitsLess(a, b) ==
    \/ Len(a) < Len(b)
    \/ /\ Len(a) = Len(b)
       /\ \E i \in 1..Len(a) : /\ DigitVal(a[i]) < DigitVal(b[i])
                               /\ \A j \in 1..(i - 1) : a[j] = b[j]

\* The digits of 2^1024 - 2^970, the least number that rounds (to nearest, ties
\* to even) beyond the largest finite double 1.7976931348623157e308.
FloatOverflowLimit ==
    <<"1", "7", "9", "7", "6", "9", "3", "1", "3", "4", "8", "6", "2", "3", "1",
       "5", "8", "0", "7", "9", "3", "7", "2", "8", "9", "7", "1", "4", "0", "5",
       "3", "0", "3", "4", "1", "5", "0", "7", "9", "9", "3", "4", "1", "3", "2",
       "7", "1", "0", "0", "3", "7", "8", "2", "6", "9", "3", "6", "1", "7", "3",
       "7", "7", "8", "9", "8", "0", "4", "4", "4", "9", "6", "8", "2", "9", "2",
       "7", "6", "4", "7", "5", "0", "9", "4", "6", "6", "4", "9", "0", "1", "7",
       "9", "7", "7", "5", "8", "7", "2", "0", "7", "0", "9", "6", "3", "3", "0",
       "2", "8", "6", "4", "1", "6", "6", "9", "2", "8", "8", "7", "9", "1", "0",
       "9", "4", "6", "5", "5", "5", "5", "4", "7", "8", "5", "1", "9", "4", "0",
       "4", "0", "2", "6", "3", "0", "6", "5", "7", "4", "8", "8", "6", "7", "1",
       "5", "0", "5", "8", "2", "0", "6", "8", "1", "9", "0", "8", "9", "0", "2",
       "0", "0", "0", "7", "0", "8", "3", "8", "3", "6", "7", "6", "2", "7", "3",
       "8", "5", "4", "8", "4", "5", "8", "1", "7", "7", "1", "1", "5", "3", "1",
       "7", "6", "4", "4", "7", "5", "7", "3", "0", "2", "7", "0", "0", "6", "9",
       "8", "5", "5", "5", "7", "1", "3", "6", "6", "9", "5", "9", "6", "2", "2",
       "8", "4", "2", "9", "1", "4", "8", "1", "9", "8", "6", "0", "8", "3", "4",
       "9", "3", "6", "4", "7", "5", "2", "9", "2", "7", "1", "9", "0", "7", "4",
       "1", "6", "8", "4", "4", "4", "3", "6", "5", "5", "1", "0", "7", "0", "4",
       "3", "4", "2", "7", "1", "1", "5", "5", "9", "6", "9", "9", "5", "0", "8",
       "0", "9", "3", "0", "4", "2", "8", "8", "0", "1", "7", "7", "9", "0", "4",
       "1", "7", "4", "4", "9", "7", "7", "9", "2">>

\* a / b of two ints is the correctly rounded quotient, and raises OverflowError
\* ("integer division result too large for a float") when that is no finite
\* double: when the numerator is at least (2^1024 - 2^970) * 10^decimals
DivisionOverflows(digits, decimals) ==
    ~DigitsLess(digits, FloatOverflowLimit \o Zeros(decimals))

\* the float 0.0
ZeroAmount == [negative |-> FALSE, digits |-> <<"0">>, places |-> 0]

\* The float that n / 10**decimals rounds to, for decimals >= 0, kept as the
\* exact quotient in lowest terms of powers of ten: equal quotients are equal
\* floats, and 0 / 10**d is 0.0 for every d.
Quotient(negative, digits, decimals) ==
    LET cut == IF TrailingZeros(digits) < decimals THEN TrailingZeros(digits) ELSE decimals
    IN IF digits = <<"0">> THEN ZeroAmount
       ELSE [negative |-> negative,
             digits |-> SubSeq(digits, 1, Len(digits) - cut),
             places |-> decimals - cut]

\* convert_amount of process_mint_burn.py raises: int(raw_amount) succeeds and the
\* division overflows; OverflowError is none of "except (ValueError, TypeError)"
ConvertAmountRaises(raw, decimals) ==
    IntParses(raw) /\ DivisionOverflows(StripZeros(Unsigned(raw)), decimals)

\* convert_amount of process_mint_burn.py: int(raw_amount) / (10 ** decimals), and
\* 0.0 on the ValueError or TypeError of int()
ConvertAmount(raw, decimals) ==
    IF IntParses(raw)
    THEN Quotient(raw[1] = "-", StripZeros(Unsigned(raw)), decimals)
    ELSE ZeroAmount

\* convert_amount of process_positions.py raises
PositionsConvertAmountRaises(raw, decimals) ==
    IntParses(raw) /\ DivisionOverflows(StripZeros(Unsigned(raw)), decimals)

\* convert_amount of process_positions.py
PositionsConvertAmount(raw, decimals) ==
    IF IntParses(raw)
    THEN Quotient(raw[1] = "-", StripZeros(Unsigned(raw)), decimals)
    ELSE ZeroAmount

\* The floats of calculate_price_from_tick.  A finite product
\* (1.0001 ** tick) * 10 ** exp10 is kept as its two exponents (a product too
\* small for a double, which is 0.0 or a subnormal, included); 0.0 is what the
\* except clause returns; inf is what a float product beyond the doubles is.
FiniteProduct(tick, exp10) == [kind |-> "finite", tick |-> tick, exp10 |-> exp10]
ZeroPrice == [kind |-> "zero", tick |-> 0, exp10 |-> 0]
Infinity == [kind |-> "inf", tick |-> 0, exp10 |-> 0]

\* the largest tick for which 1.0001 ** tick is a finite double (1.79769e308)
MaxFiniteTick == 7098182
\* the largest n for which float(10 ** n) is a finite double
MaxPowerOfTen == 308
\* the largest n for which the int 10 ** n is a double exactly (5^n < 2^53)
ExactPowerOfTen == 22
\* 10 is 1.0001 ** 23027.0022...: a power of ten is worth this many ticks
TicksPerDecade == 23027

\* 1.0001 ** tick raises OverflowError ("Result too large")
PowerOverflows(tick) == tick > MaxFiniteTick

\* float * int raises OverflowError ("int too large to convert to float")
AdjustmentOverflows(exp10) == exp10 > MaxPowerOfTen

\* float * float beyond the doubles raises nothing and gives inf.  The largest
\* double is 1.0001 ** 7098182.0144 and 10 ** exp10 is 1.0001 ** (23027.0022 *
\* exp10): the product is beyond it when the ticks left under MaxFiniteTick are
\* fewer than 23027 * exp10, or are exactly as many and 0.0022 * exp10 > 0.0144.
ProductOverflows(tick, exp10) ==
    LET left == (MaxFiniteTick - tick) - TicksPerDecade * exp10
    IN left < 0 \/ (left = 0 /\ 22 * exp10 > 144)

\* the exponent of the adjustment computed as decimals1 - decimals0
PriceFromTickSwapped(tick, decimals0, decimals1) ==
    IF tick = NoInt \/ decimals0 = NoInt \/ decimals1 = NoInt THEN ZeroPrice
    ELSE IF PowerOverflows(IntOf(tick)) THEN ZeroPrice
    ELSE IF AdjustmentOverflows(IntOf(decimals1) - IntOf(decimals0)) THEN ZeroPrice
    ELSE IF ProductOverflows(IntOf(tick), IntOf(decimals1) - IntOf(decimals0)) THEN Infinity
    ELSE FiniteProduct(IntOf(tick), IntOf(decimals1) - IntOf(decimals0))

\* calculate_price_from_tick of process_mint_burn.py.  An argument is {n} for the
\* int n and {} for a value that is no number (None, a str): arithmetic on it
\* raises TypeError.  Each of TypeError and OverflowError gives 0.0.
PriceFromTick(tick, decimals0, decimals1) ==
    IF tick = NoInt \/ decimals0 = NoInt \/ decimals1 = NoInt THEN ZeroPrice
    ELSE IF PowerOverflows(IntOf(tick)) THEN ZeroPrice
    ELSE IF AdjustmentOverflows(IntOf(decimals0) - IntOf(decimals1)) THEN ZeroPrice
    ELSE IF ProductOverflows(IntOf(tick), IntOf(decimals0) - IntOf(decimals1)) THEN Infinity
    ELSE FiniteProduct(IntOf(tick), IntOf(decimals0) - IntOf(decimals1))

\* calculate_price_from_tick of process_positions.py
PositionsPriceFromTick(tick, decimals0, decimals1) ==
    IF tick = NoInt \/ decimals0 = NoInt \/ decimals1 = NoInt THEN ZeroPrice
    ELSE IF PowerOverflows(IntOf(tick)) THEN ZeroPrice
    ELSE IF AdjustmentOverflows(IntOf(decimals0) - IntOf(decimals1)) THEN ZeroPrice
    ELSE IF ProductOverflows(IntOf(tick), IntOf(decimals0) - IntOf(decimals1)) THEN Infinity
    ELSE FiniteProduct(IntOf(tick), IntOf(decimals0) - IntOf(decimals1))

NoPrice == {}

\* the slip "if tick_lower and tick_upper:": a tick of 0 is falsy
PriceBandTruthy(lower, upper, d0, d1) ==
    IF lower # NoInt /\ upper # NoInt /\ IntOf(lower) # 0 /\ IntOf(upper) # 0
    THEN [lower |-> {PriceFromTick(lower, SomeInt(d0), SomeInt(d1))},
          upper |-> {PriceFromTick(upper, SomeInt(d0), SomeInt(d1))}]
    ELSE [lower |-> NoPrice, upper |-> NoPrice]

\* price_lower / price_upper of the mint loop: set only when both ticks are not None
PriceBand(lower, upper, d0, d1) ==
    IF lower # NoInt /\ upper # NoInt
    THEN [lower |-> {PriceFromTick(lower, SomeInt(d0), SomeInt(d1))},
          upper |-> {PriceFromTick(upper, SomeInt(d0), SomeInt(d1))}]
    ELSE [lower |-> NoPrice, upper |-> NoPrice]

\* price_lower / price_upper of the positions loop
PositionsPriceBand(lower, upper, d0, d1) ==
    IF lower # NoInt /\ upper # NoInt
    THEN [lower |-> {PositionsPriceFromTick(lower, SomeInt(d0), SomeInt(d1))},
          upper |-> {PositionsPriceFromTick(upper, SomeInt(d0), SomeInt(d1))}]
    ELSE [lower |-> NoPrice, upper |-> NoPrice]

\* The Transfers get_token_decimals can return for the addresses it asks about:
\* the query keeps one transfer per contract (limitBy count 1) among the
\* contracts of the "in" list; a contract may have no transfer in the date range,
\* and its currency may lack Decimals or Symbol.  A failed request gives none.
CurrencyChoices(a) ==
    { <<>>,
      <<Currency(a, SomeInt(6), <<"T">>)>>,
      <<Currency(a, SomeInt(0), None)>>,
      <<Currency(a, NoInt, <<"T">>)>> }

RECURSIVE DecimalsResponses(_)
DecimalsResponses(addresses) ==
    IF addresses = {} THEN {<<>>}
    ELSE LET a == CHOOSE x \in addresses : \A y \in addresses : x = y \/ StrLess(x, y)
         IN {c \o rest : c \in CurrencyChoices(a), rest \in DecimalsResponses(addresses \ {a})}

-----------------------------------------------------------------------------
(* process_mint_events_with_decimals *)

MintParamsName == "INonfungiblePositionManagerMintParams"

\* name.startswith('INonfungiblePositionManagerMintParams'), on the names of the inputs
IsMintParamsName(name) == name \in {MintParamsName}

\* extract_token_addresses_from_mint_burn_response
MintTokenAddresses(calls) ==
    UNION {{arg.Value.val : arg \in {a \in Range(calls[i].Arguments) :
                                         IsMintParamsName(a.Name) /\ a.Value.tag = "address"}} :
           i \in 1..Len(calls)}

\* params.get(key, '0') of an amount at an index
AmountAt(arguments, index) ==
    IF HasArg(arguments, index, "bigInteger") THEN ArgAt(arguments, index, "bigInteger")
    ELSE <<"0">>

\* the slip "and" for "or": only a record that lacks both addresses is skipped
MintSkippedBoth(call) ==
    /\ ~Truthy(ArgAt(call.Arguments, 0, "address"))
    /\ ~Truthy(ArgAt(call.Arguments, 1, "address"))

\* "if not token0_address or not token1_address: continue"
MintSkipped(call) ==
    \/ ~Truthy(ArgAt(call.Arguments, 0, "address"))
    \/ ~Truthy(ArgAt(call.Arguments, 1, "address"))

\* event_data of one call that is not skipped
MintEvent(call, td) ==
    LET args == call.Arguments
        t0 == TokenInfo(td, ArgAt(args, 0, "address"))
        t1 == TokenInfo(td, ArgAt(args, 1, "address"))
    IN [event_type |-> "mint",
        token0 |-> t0,
        token1 |-> t1,
        amounts |-> [amount0_desired |-> ConvertAmount(AmountAt(args, 5), t0.decimals),
                     amount1_desired |-> ConvertAmount(AmountAt(args, 7), t1.decimals),
                     amount0_min |-> ConvertAmount(AmountAt(args, 6), t0.decimals),
                     amount1_min |-> ConvertAmount(AmountAt(args, 8), t1.decimals)],
        fee |-> ArgAt(args, 2, "bigInteger"),
        ticks |-> [lower |-> TickAt(args, 3), upper |-> TickAt(args, 4)],
        price_band |-> PriceBand(TickAt(args, 3), TickAt(args, 4), t0.decimals, t1.decimals),
        recipient |-> ArgAt(args, 9, "address"),
        deadline |-> ArgAt(args, 10, "bigInteger"),
        transaction |-> [hash |-> call.Transaction.Hash, from |-> call.Transaction.From,
                         to |-> None, value_in_usd |-> call.Transaction.ValueInUSD,
                         time |-> None],
        block |-> [number |-> call.Block.Number, time |-> call.Block.Time]]

\* convert_amount raises on one of the four amounts of a call that is not skipped
AmountRaises(call, td) ==
    /\ ~MintSkipped(call)
    /\ \E at \in {<<5, 0>>, <<7, 1>>, <<6, 0>>, <<8, 1>>} :
           ConvertAmountRaises(AmountAt(call.Arguments, at[1]),
                               DecimalsFor(td, ArgAt(call.Arguments, at[2], "address")))

\* the loop raises: parse_mint_burn_arguments on an unparseable tick of any
\* call (ValueError), convert_amount on an amount beyond the floats (OverflowError)
MintRaises(calls, td) ==
    \E i \in 1..Len(calls) : TickRaises(calls[i].Arguments) \/ AmountRaises(calls[i], td)

\* the loop "for i, call in enumerate(calls)"
RECURSIVE ProcessMintEvents(_, _)
ProcessMintEvents(calls, td) ==
    IF calls = <<>> THEN <<>>
    ELSE LET rest == ProcessMintEvents(SubSeq(calls, 1, Len(calls) - 1), td)
             call == calls[Len(calls)]
         IN IF MintSkipped(call) THEN rest ELSE Append(rest, MintEvent(call, td))

-----------------------------------------------------------------------------
(* process_positions_with_decimals *)

\* extract_token_addresses_from_positions_response
PositionTokenAddresses(calls) ==
    UNION {{ret.Value.val : ret \in {r \in Range(calls[i].Returns) :
                                         r.Name \in {"token0", "token1"} /\ r.Value.tag = "address"}} :
           i \in 1..Len(calls)}

\* the loop over arguments: the first one named tokenId decides, then break
RECURSIVE TokenIdOf(_)
TokenIdOf(arguments) ==
    IF arguments = <<>> THEN None
    ELSE IF Head(arguments).Name = "tokenId"
         THEN (IF Head(arguments).Value.tag = "bigInteger" THEN Head(arguments).Value.val ELSE None)
         ELSE TokenIdOf(Tail(arguments))

HasReturn(returns, name, tag) ==
    \E i \in 1..Len(returns) : returns[i].Name = name /\ returns[i].Value.tag = tag

\* int(value['bigInteger']) of a return named tickLower or tickUpper raises ValueError
TickReturnRaises(returns) ==
    \E i \in 1..Len(returns) :
        /\ returns[i].Name \in {"tickLower", "tickUpper"}
        /\ returns[i].Value.tag = "bigInteger"
        /\ ~IntParses(returns[i].Value.val)

TickReturn(returns, name) ==
    IF HasReturn(returns, name, "bigInteger")
    THEN SomeInt(IntValue(ReturnNamed(returns, name, "bigInteger")))
    ELSE NoInt

\* position_data of one call
PositionData(call, td) ==
    LET rets == call.Returns
        t0 == TokenInfo(td, ReturnNamed(rets, "token0", "address"))
        t1 == TokenInfo(td, ReturnNamed(rets, "token1", "address"))
    IN [tokenId |-> TokenIdOf(call.Arguments),
        token0 |-> t0,
        token1 |-> t1,
        liquidity |-> ReturnNamed(rets, "liquidity", "bigInteger"),
        fee |-> ReturnNamed(rets, "fee", "bigInteger"),
        ticks |-> [lower |-> TickReturn(rets, "tickLower"), upper |-> TickReturn(rets, "tickUpper")],
        price_band |-> PositionsPriceBand(TickReturn(rets, "tickLower"),
                                          TickReturn(rets, "tickUpper"),
                                          t0.decimals, t1.decimals),
        block |-> call.Block.Number,
        timestamp |-> call.Block.Time]

PositionsRaise(calls) == \E i \in 1..Len(calls) : TickReturnRaises(calls[i].Returns)

\* a loop that skips a record without a token id
ProcessPositionsWithId(calls, td) ==
    LET kept == SelectSeq(calls, LAMBDA c : TokenIdOf(c.Arguments) # None)
    IN [i \in 1..Len(kept) |-> PositionData(kept[i], td)]

\* the loop "for i, call in enumerate(calls)": every call is appended
ProcessPositions(calls, td) == [i \in 1..Len(calls) |-> PositionData(calls[i], td)]

-----------------------------------------------------------------------------
(* The mint run and the positions run: two fetches, the decimals, the loop *)

\* the arguments of a mint call, all named after the params struct
ParamArgs(t0, t1, lo, hi, amount0) ==
    <<Arg(0, MintParamsName, t0), Arg(1, MintParamsName, t1),
      Arg(2, MintParamsName, Big(<<"5", "0", "0">>)),
      Arg(3, MintParamsName, lo), Arg(4, MintParamsName, hi),
      Arg(5, MintParamsName, amount0), Arg(7, MintParamsName, Big(<<"3">>)),
      Arg(10, MintParamsName, Big(<<"9">>))>>

\* The call records a mint response is drawn from: a complete mint of A/B, one
\* with no address at index 0, one with no address at index 1, a burn-shaped
\* record with neither, a mint of A/C whose arguments carry another name (its
\* tokens are not asked about), with one tick and an unparseable amount, a
\* mint whose tick does not parse, and a mint of A/B with an amount of 312 digits.
MintCalls ==
    { Call(<<"X">>, <<"5", ".", "0">>, <<"1">>, <<>>,
           ParamArgs(Addr(<<"A">>), Addr(<<"B">>), Big(<<"-", "1", "0">>), Big(<<"0">>),
                     Big(<<"2", "5">>))),
      Call(<<"X">>, <<"5", ".", "0">>, <<"1">>, <<>>,
           ParamArgs(Big(<<"1">>), Addr(<<"B">>), Big(<<"-", "1", "0">>), Big(<<"0">>),
                     Big(<<"2", "5">>))),
      Call(<<"Y">>, <<"5", ".", "0">>, <<"2">>, <<>>,
           ParamArgs(Addr(<<"A">>), Untagged, Big(<<"-", "1", "0">>), Big(<<"0">>),
                     Big(<<"2", "5">>))),
      Call(<<"Y">>, None, <<"2">>, <<>>, <<Arg(0, "tokenId", Big(<<"7">>))>>),
      Call(<<"Z">>, None, <<"3">>, <<>>,
           <<Arg(0, "params", Addr(<<"A">>)), Arg(1, "params", Addr(<<"C">>)),
             Arg(3, "params", Big(<<"1", "0">>)), Arg(5, "params", Big(<<"x">>)),
             Arg(9, "params", Addr(<<"Z">>))>>),
      Call(<<"Z">>, None, <<"3">>, <<>>,
           ParamArgs(Addr(<<"A">>), Addr(<<"B">>), Big(<<"x">>), Big(<<"0">>),
                     Big(<<"2", "5">>))),
      Call(<<"Y">>, None, <<"4">>, <<>>,
           ParamArgs(Addr(<<"A">>), Addr(<<"B">>), Big(<<"-", "1", "0">>), Big(<<"0">>),
                     Big(PowerOfTen(311)))) }

\* The call records a positions response is drawn from: a full position of
\* A/B, a record with only a liquidity return and no tokenId argument, a position
\* of A/C whose tokenId argument is no bigInteger and that has one tick, and a
\* position whose tick does not parse.
PositionCalls ==
    { Call(None, None, <<"1">>,
           <<Ret("token0", Addr(<<"A">>)), Ret("token1", Addr(<<"B">>)),
             Ret("liquidity", Big(<<"5", "0">>)), Ret("fee", Big(<<"5", "0", "0">>)),
             Ret("tickLower", Big(<<"-", "1", "0">>)), Ret("tickUpper", Big(<<"0">>))>>,
           <<Arg(0, "tokenId", Big(<<"7">>))>>),
      Call(None, None, <<"2">>,
           <<Ret("liquidity", Big(<<"1", "2", "3", "4", "5", "6", "7", "8", "9">>))>>,
           <<>>),
      Call(None, None, <<"3">>,
           <<Ret("token0", Addr(<<"A">>)), Ret("token1", Addr(<<"C">>)),
             Ret("liquidity", Addr(<<"A">>)), Ret("tickLower", Big(<<"1", "0">>))>>,
           <<Arg(0, "owner", Addr(<<"X">>)), Arg(1, "tokenId", Addr(<<"X">>)),
             Arg(2, "tokenId", Big(<<"7">>))>>),
      Call(None, None, <<"3">>,
           <<Ret("token0", Addr(<<"A">>)), Ret("token1", Addr(<<"B">>)),
             Ret("liquidity", Big(<<"5", "0">>)), Ret("tickLower", Big(<<"x">>))>>,
           <<Arg(0, "tokenId", Big(<<"7">>))>>) }

CallsOfRun == IF pipeline = "mint" THEN MintCalls ELSE PositionCalls

\* What execute_query returns: {} after a RequestException, else the JSON with its Calls
FailedResponse == [failed |-> TRUE, Calls |-> <<>>]
Responses(S, n) == {FailedResponse} \cup {[failed |-> FALSE, Calls |-> c] : c \in SeqsUpTo(S, n)}

\* response.get('data', {}).get('EVM', {}).get('Calls', [])
CallsOf(resp) == IF resp.failed THEN <<>> ELSE resp.Calls

InitPipeline(kind) ==
    /\ pc = "start"
    /\ pipeline = kind
    /\ include_realtime \in BOOLEAN
    /\ responses = <<>>
    /\ all_events = <<>>
    /\ token_addresses = {}
    /\ token_decimals = <<>>
    /\ processed = NoResult
    /\ response = <<>>
    /\ creators_data = <<>>
    /\ idx = 0
    /\ creator_stats = <<>>
    /\ mutated = FALSE
    /\ top_n = 0
    /\ rankings = [m \in Metrics |-> <<>>]
    /\ stages = {}
    /\ inputs = NoResult
    /\ output = NoResult

InitMint == InitPipeline("mint")
InitPositions == InitPipeline("positions")

\* the slip of reading historical_response['data']['EVM']['Calls']: KeyError on {}
FetchHistoricalStrict ==
    /\ pc = "start"
    /\ pipeline \in {"mint", "positions"}
    /\ \E resp \in Responses(CallsOfRun, MaxHistorical) :
           /\ responses' = Append(responses, resp)
           /\ all_events' = all_events \o CallsOf(resp)
           /\ pc' = IF resp.failed THEN "raised" ELSE "fetched"
    /\ UNCHANGED <<pipeline, include_realtime, token_addresses, token_decimals, processed>>
    /\ UNCHANGED creatorVars
    /\ UNCHANGED stages
    /\ UNCHANGED functionVars

\* Step 1: the historical fetch; its calls, if any, extend all_events
FetchHistorical ==
    /\ pc = "start"
    /\ pipeline \in {"mint", "positions"}
    /\ \E resp \in Responses(CallsOfRun, MaxHistorical) :
           /\ responses' = Append(responses, resp)
           /\ all_events' = all_events \o CallsOf(resp)
    /\ pc' = "fetched"
    /\ UNCHANGED <<pipeline, include_realtime, token_addresses, token_decimals, processed>>
    /\ UNCHANGED creatorVars
    /\ UNCHANGED stages
    /\ UNCHANGED functionVars

\* the slip of putting the real-time calls in front of the historical ones
FetchRealtimeFirst ==
    /\ pc = "fetched"
    /\ include_realtime
    /\ \E resp \in Responses(CallsOfRun, MaxRealtime) :
           /\ responses' = Append(responses, resp)
           /\ all_events' = CallsOf(resp) \o all_events
    /\ pc' = "collected"
    /\ UNCHANGED <<pipeline, include_realtime, token_addresses, token_decimals, processed>>
    /\ UNCHANGED creatorVars
    /\ UNCHANGED stages
    /\ UNCHANGED functionVars

\* Step 2 with include_realtime: the real-time fetch
FetchRealtime ==
    /\ pc = "fetched"
    /\ include_realtime
    /\ \E resp \in Responses(CallsOfRun, MaxRealtime) :
           /\ responses' = Append(responses, resp)
           /\ all_events' = all_events \o CallsOf(resp)
    /\ pc' = "collected"
    /\ UNCHANGED <<pipeline, include_realtime, token_addresses, token_decimals, processed>>
    /\ UNCHANGED creatorVars
    /\ UNCHANGED stages
    /\ UNCHANGED functionVars

\* Step 2 without include_realtime
SkipRealtime ==
    /\ pc = "fetched"
    /\ ~include_realtime
    /\ pc' = "collected"
    /\ UNCHANGED <<pipeline, include_realtime, all_events, token_addresses, token_decimals, processed,
                 responses>>
    /\ UNCHANGED creatorVars
    /\ UNCHANGED stages
    /\ UNCHANGED functionVars

\* "if not all_events: return"
EmptyBatch ==
    /\ pc = "collected"
    /\ all_events = <<>>
    /\ pc' = "returned"
    /\ UNCHANGED <<pipeline, include_realtime, all_events, token_addresses, token_decimals, processed,
                 responses>>
    /\ UNCHANGED creatorVars
    /\ UNCHANGED stages
    /\ UNCHANGED functionVars

TokenAddressesOfRun ==
    IF pipeline = "mint" THEN MintTokenAddresses(all_events) ELSE PositionTokenAddresses(all_events)

\* Steps 2 and 3: the token addresses, the decimals query, the lookup, and
\* "if not token_decimals: return"
ResolveDecimals ==
    /\ pc = "collected"
    /\ all_events # <<>>
    /\ token_addresses' = TokenAddressesOfRun
    /\ \E transfers \in DecimalsResponses(TokenAddressesOfRun) :
           /\ token_decimals' = CreateLookup(transfers)
           /\ pc' = IF CreateLookup(transfers) = <<>> THEN "returned" ELSE "resolved"
    /\ UNCHANGED <<pipeline, include_realtime, all_events, processed, responses>>
    /\ UNCHANGED creatorVars
    /\ stages' = stages \cup {"decimals_query"}
    /\ UNCHANGED functionVars

\* Step 4 of process_mint_events_with_decimals: the loop and the return, or the ValueError
ProcessMint ==
    /\ pc = "resolved"
    /\ pipeline = "mint"
    /\ IF MintRaises(all_events, token_decimals)
       THEN pc' = "raised" /\ UNCHANGED processed
       ELSE pc' = "done" /\ processed' = ProcessMintEvents(all_events, token_decimals)
    /\ UNCHANGED <<pipeline, include_realtime, all_events, token_addresses, token_decimals,
                 responses>>
    /\ UNCHANGED creatorVars
    /\ UNCHANGED stages
    /\ UNCHANGED functionVars

\* Step 4 of process_positions_with_decimals: the loop and the return, or the ValueError
ProcessPositionCalls ==
    /\ pc = "resolved"
    /\ pipeline = "positions"
    /\ IF PositionsRaise(all_events)
       THEN pc' = "raised" /\ UNCHANGED processed
       ELSE pc' = "done" /\ processed' = ProcessPositions(all_events, token_decimals)
    /\ UNCHANGED <<pipeline, include_realtime, all_events, token_addresses, token_decimals,
                 responses>>
    /\ UNCHANGED creatorVars
    /\ UNCHANGED stages
    /\ UNCHANGED functionVars

NextMint ==
    FetchHistorical \/ FetchRealtime \/ SkipRealtime \/ EmptyBatch \/ ResolveDecimals \/ ProcessMint

NextPositions ==
    FetchHistorical \/ FetchRealtime \/ SkipRealtime \/ EmptyBatch \/ ResolveDecimals
        \/ ProcessPositionCalls

SpecMint == InitMint /\ [][NextMint]_vars

SpecPositions == InitPositions /\ [][NextPositions]_vars

InitPipelines == InitMint \/ InitPositions

NextPipelines ==
    FetchHistorical \/ FetchRealtime \/ SkipRealtime \/ EmptyBatch \/ ResolveDecimals
        \/ ProcessMint \/ ProcessPositionCalls

SpecPipelines == InitPipelines /\ [][NextPipelines]_vars

-----------------------------------------------------------------------------
(* Properties of the creators run *)

Analyzed == pc \in {"analyzed", "ranked"}

\* the positions in creators_data of the events of one address
EventsBy(a) == {j \in 1..Len(creators_data) : creators_data[j].creator_address = a}

CreatorAddresses == {creators_data[j].creator_address : j \in 1..Len(creators_data)}

\* the position in creators_data of the first event of an address
FirstSeen(a) == CHOOSE j \in EventsBy(a) : \A k \in EventsBy(a) : j <= k

LiquidityOf(ev) == IF IntParses(ev.liquidity) THEN IntValue(ev.liquidity) ELSE 0
UsdHalvesOf(ev) ==
    IF FloatParses(ev.transaction_value_usd) THEN FloatHalves(ev.transaction_value_usd) ELSE 0

RECURSIVE SumLiquidity(_)
SumLiquidity(S) ==
    IF S = {} THEN 0
    ELSE LET j == CHOOSE j \in S : TRUE
         IN LiquidityOf(creators_data[j]) + SumLiquidity(S \ {j})

RECURSIVE SumUsdHalves(_)
SumUsdHalves(S) ==
    IF S = {} THEN 0
    ELSE LET j == CHOOSE j \in S : TRUE
         IN UsdHalvesOf(creators_data[j]) + SumUsdHalves(S \ {j})

\* the distinct "token0/token1" strings of the events of an address that carry both
PairsOfEvents(a) ==
    {creators_data[j].token0_address \o <<"/">> \o creators_data[j].token1_address :
        j \in {k \in EventsBy(a) : /\ creators_data[k].token0_address \notin {None, <<>>}
                                   /\ creators_data[k].token1_address \notin {None, <<>>}}}

\* C1: after analyze_top_creators every address's total_positions is the number
\* of input events of that address, and the result has exactly one key per
\* distinct creator_address of the input.
C1_PositionsAndKeys ==
    Analyzed =>
        /\ \A i \in 1..Len(creator_stats) :
               creator_stats[i][2].total_positions = Cardinality(EventsBy(creator_stats[i][1]))
        /\ Range(Keys(creator_stats)) = CreatorAddresses
        /\ Len(creator_stats) = Cardinality(CreatorAddresses)

C1_Witness ==
    /\ Analyzed
    /\ Len(creator_stats) = 2
    /\ \E i \in 1..Len(creator_stats) : creator_stats[i][2].total_positions = 2

\* the addresses, liquidities and USD values of the events X,X,Y / 100,50,200 / 10.0,5.0,20.0
ScenarioXXY ==
    /\ Len(creators_data) = 3
    /\ [j \in 1..3 |-> creators_data[j].creator_address] = <<(<<"X">>), (<<"X">>), (<<"Y">>)>>
    /\ [j \in 1..3 |-> creators_data[j].liquidity]
           = <<(<<"1", "0", "0">>), (<<"5", "0">>), (<<"2", "0", "0">>)>>
    /\ [j \in 1..3 |-> creators_data[j].transaction_value_usd]
           = <<(<<"1", "0", ".", "0">>), (<<"5", ".", "0">>), (<<"2", "0", ".", "0">>)>>

\* C2: every address's total_liquidity is the integer sum of the liquidity
\* values of its events that parse as integers and its total_usd_value the sum of
\* its events' parseable USD values (in halves); an event with an absent or
\* non-numeric value adds nothing and is still counted in total_positions.  The
\* events X,X,Y with 100,50,200 and 10.0,5.0,20.0 give X: 2/150/15.0, Y: 1/200/20.0.
C2_Totals ==
    Analyzed =>
        /\ \A i \in 1..Len(creator_stats) :
               LET a == creator_stats[i][1]
                   st == creator_stats[i][2]
               IN /\ st.total_liquidity = SumLiquidity(EventsBy(a))
                  /\ st.total_usd_value = SumUsdHalves(EventsBy(a))
                  /\ st.total_positions = Cardinality(EventsBy(a))
        /\ ScenarioXXY =>
               /\ Keys(creator_stats) = <<(<<"X">>), (<<"Y">>)>>
               /\ creator_stats[1][2].total_positions = 2
               /\ creator_stats[1][2].total_liquidity = 150
               /\ creator_stats[1][2].total_usd_value = 2 * 15
               /\ creator_stats[2][2].total_positions = 1
               /\ creator_stats[2][2].total_liquidity = 200
               /\ creator_stats[2][2].total_usd_value = 2 * 20

\* an address with a numeric and a non-numeric liquidity and USD value
C2_Witness ==
    /\ Analyzed
    /\ \E i \in 1..Len(creator_stats) :
           LET evs == creator_stats[i][2].positions
           IN /\ creator_stats[i][2].total_liquidity = 200
              /\ creator_stats[i][2].total_usd_value = 40
              /\ creator_stats[i][2].total_positions = 2
              /\ \E j \in 1..Len(evs) : evs[j].liquidity = <<"x">>
              /\ \E j \in 1..Len(evs) : evs[j].transaction_value_usd = <<"x">>

MinOf(a, b) == IF a < b THEN a ELSE b

RankedAddresses(m) == {rankings[m][i][1] : i \in 1..Len(rankings[m])}

\* C3: each of the four rankings has min(top_n, |stats|) entries, is descending
\* in its metric, and leaves out no address whose metric is strictly greater than
\* that of an address it includes.
C3_RankingsSortedTopN ==
    pc = "ranked" =>
        \A m \in Metrics :
            LET r == rankings[m]
            IN /\ Len(r) = MinOf(top_n, Len(creator_stats))
               /\ \A i \in 1..(Len(r) - 1) :
                      MetricOf(r[i][2], m) >= MetricOf(r[i + 1][2], m)
               /\ \A i \in 1..Len(r) : \A k \in 1..Len(creator_stats) :
                      creator_stats[k][1] \notin RankedAddresses(m)
                          => MetricOf(creator_stats[k][2], m) <= MetricOf(r[i][2], m)
               /\ \A i \in 1..Len(r) : r[i] \in Range(creator_stats)

\* a ranking that leaves out an address and reorders the dict
C3_Witness ==
    /\ pc = "ranked"
    /\ top_n = 2
    /\ Len(creator_stats) = 3
    /\ rankings["by_liquidity"][1] = creator_stats[3]
    /\ MetricOf(rankings["by_liquidity"][1][2], "by_liquidity")
           > MetricOf(rankings["by_liquidity"][2][2], "by_liquidity")

\* C4: two addresses with equal value of a metric appear in that metric's
\* ranking in the order of their first occurrence in the event batch.
C4_TiesInFirstSeenOrder ==
    pc = "ranked" =>
        \A m \in Metrics :
            \A i \in 1..Len(rankings[m]) : \A j \in 1..Len(rankings[m]) :
                (i < j /\ MetricOf(rankings[m][i][2], m) = MetricOf(rankings[m][j][2], m))
                    => FirstSeen(rankings[m][i][1]) < FirstSeen(rankings[m][j][1])

\* a tie in total_liquidity between two ranked addresses below a greater one that came later
C4_Witness ==
    /\ pc = "ranked"
    /\ Len(rankings["by_liquidity"]) = 3
    /\ rankings["by_liquidity"][1] = creator_stats[3]
    /\ MetricOf(rankings["by_liquidity"][2][2], "by_liquidity")
           = MetricOf(rankings["by_liquidity"][3][2], "by_liquidity")

\* C5: unique_pairs_count is the number of distinct "token0/token1" strings
\* among the address's events that carry both token addresses: a repeated pair
\* counts once, B/A differs from A/B, an event lacking an address adds no pair.
C5_UniquePairsCount ==
    Analyzed =>
        \A i \in 1..Len(creator_stats) :
            /\ creator_stats[i][2].unique_pairs_count
                   = Cardinality(PairsOfEvents(creator_stats[i][1]))
            /\ ~mutated => creator_stats[i][2].unique_pairs = PairsOfEvents(creator_stats[i][1])

\* an address with the pair A/B twice and one with an event that lacks token1
C5_Witness ==
    /\ Analyzed
    /\ \E i \in 1..Len(creator_stats) :
           /\ creator_stats[i][2].total_positions = 2
           /\ creator_stats[i][2].unique_pairs_count = 1
           /\ creator_stats[i][2].positions[1].token1_address = <<"B">>
           /\ creator_stats[i][2].positions[2].token1_address = <<"B">>
    /\ \E i \in 1..Len(creator_stats) :
           /\ creator_stats[i][2].total_positions = 1
           /\ creator_stats[i][2].unique_pairs_count = 0
           /\ creator_stats[i][2].positions[1].token1_address = None

\* C6 as claimed: by_unique_pairs is ordered by the cardinality that each pair
\* collection has at the moment of ranking.
C6_RankedByLivePairs ==
    pc = "ranked" =>
        \A i \in 1..(Len(rankings["by_unique_pairs"]) - 1) :
            Cardinality(rankings["by_unique_pairs"][i][2].unique_pairs)
                >= Cardinality(rankings["by_unique_pairs"][i + 1][2].unique_pairs)

\* C6 amended: by_unique_pairs is ordered by the unique_pairs_count that
\* analyze_top_creators stored, the number of distinct pairs of the address's
\* events, whether or not a unique_pairs collection was changed afterwards.
C6_RankedByStoredCount ==
    pc = "ranked" =>
        /\ \A i \in 1..(Len(rankings["by_unique_pairs"]) - 1) :
               Cardinality(PairsOfEvents(rankings["by_unique_pairs"][i][1]))
                   >= Cardinality(PairsOfEvents(rankings["by_unique_pairs"][i + 1][1]))
        /\ \A k \in 1..Len(creator_stats) : \A i \in 1..Len(rankings["by_unique_pairs"]) :
               creator_stats[k][1] \notin RankedAddresses("by_unique_pairs")
                   => Cardinality(PairsOfEvents(creator_stats[k][1]))
                          <= Cardinality(PairsOfEvents(rankings["by_unique_pairs"][i][1]))

\* a ranking made after a change that left a larger collection below a smaller one
C6_Witness ==
    /\ pc = "ranked"
    /\ mutated
    /\ \E i \in 1..(Len(rankings["by_unique_pairs"]) - 1) :
           Cardinality(rankings["by_unique_pairs"][i][2].unique_pairs)
               < Cardinality(rankings["by_unique_pairs"][i + 1][2].unique_pairs)

\* the positions in the response of the calls with a present, non-empty sender
SenderCalls ==
    {i \in 1..Len(response) : response[i].Transaction.From \notin {None, <<>>}}

\* the position in the response of the k-th call with a sender
NthSenderCall(k) ==
    CHOOSE i \in SenderCalls : Cardinality({j \in SenderCalls : j <= i}) = k

\* C9: the output of extract_position_creators_from_response is, in input
\* order, the creation events of the calls that have a non-empty sender, each with
\* that sender as creator_address; a call with no sender gives no element and no
\* error (the only error is the ValueError of a tick of a call that has a sender).
C9_ExtractKeepsSenders ==
    /\ pc \notin {"start", "raised"} =>
           /\ Len(creators_data) = Cardinality(SenderCalls)
           /\ \A k \in 1..Len(creators_data) :
                  /\ creators_data[k].creator_address = response[NthSenderCall(k)].Transaction.From
                  /\ creators_data[k] = CreatorData(response[NthSenderCall(k)])
    /\ pc = "raised" =>
           \E i \in SenderCalls : TickRaises(response[i].Arguments)

\* an extraction that dropped a None sender (with an unparseable tick) and an empty sender
C9_Witness ==
    /\ pc = "extracted"
    /\ Len(response) = 3
    /\ Len(creators_data) = 1
    /\ \E i \in 1..Len(response) :
           response[i].Transaction.From = None /\ TickRaises(response[i].Arguments)
    /\ \E i \in 1..Len(response) : response[i].Transaction.From = <<>>

-----------------------------------------------------------------------------
(* Properties of the mint run and of the positions run *)

\* a mint record that carries a non-empty address at index 0 and at index 1
HasBothTokens(call) ==
    /\ ArgAt(call.Arguments, 0, "address") \notin {None, <<>>}
    /\ ArgAt(call.Arguments, 1, "address") \notin {None, <<>>}

\* the positions in all_events of the records the loop has to emit
Emittable ==
    {i \in 1..Len(all_events) : pipeline = "mint" => HasBothTokens(all_events[i])}

\* the position in all_events of the k-th record to emit
NthEmittable(k) == CHOOSE i \in Emittable : Cardinality({j \in Emittable : j <= i}) = k

\* some tick of the batch does not parse: int() raises ValueError
SomeTickUnparseable ==
    \E i \in 1..Len(all_events) :
        IF pipeline = "mint"
        THEN \E a \in Range(all_events[i].Arguments) :
                 a.Index \in {3, 4} /\ a.Value.tag = "bigInteger" /\ ~IntParses(a.Value.val)
        ELSE \E r \in Range(all_events[i].Returns) :
                 /\ r.Name \in {"tickLower", "tickUpper"}
                 /\ r.Value.tag = "bigInteger"
                 /\ ~IntParses(r.Value.val)

\* some amount of a mint record has more digits than the largest finite double
SomeAmountBeyondFloats ==
    /\ pipeline = "mint"
    /\ \E i \in 1..Len(all_events) : \E a \in Range(all_events[i].Arguments) :
           /\ a.Index \in {5, 6, 7, 8}
           /\ a.Value.tag = "bigInteger"
           /\ IntParses(a.Value.val)
           /\ Len(a.Value.val) >= Len(FloatOverflowLimit)

\* what a run can raise on: the ValueError of int() on a tick, the
\* OverflowError of convert_amount on an amount
RaiseCause == SomeTickUnparseable \/ SomeAmountBeyondFloats

LookupKeys == Range(Keys(token_decimals))

\* C7: a mint record with no address at index 0 (or with neither address) is
\* never in the processed list; dropping it is no error (the run raises only on an
\* unparseable tick or an amount beyond the floats) and the other records are
\* still processed, in order.
C7_MintRecordWithoutTokenDropped ==
    /\ (pipeline = "mint" /\ pc = "done") =>
           /\ \A k \in 1..Len(processed) :
                  /\ processed[k].token0.address \notin {None, <<>>}
                  /\ processed[k].token1.address \notin {None, <<>>}
           /\ Len(processed) = Cardinality(Emittable)
           /\ \A k \in 1..Len(processed) :
                  /\ processed[k].token0.address
                         = ArgAt(all_events[NthEmittable(k)].Arguments, 0, "address")
                  /\ processed[k].token1.address
                         = ArgAt(all_events[NthEmittable(k)].Arguments, 1, "address")
                  /\ processed[k].block.time = all_events[NthEmittable(k)].Block.Time
    /\ (pipeline = "mint" /\ pc = "raised") => RaiseCause

\* a record without token0, then a record with neither address, then an emitted record
C7_Witness ==
    /\ pipeline = "mint"
    /\ pc = "done"
    /\ Len(all_events) = 3
    /\ ~HasArg(all_events[1].Arguments, 0, "address")
    /\ HasArg(all_events[1].Arguments, 1, "address")
    /\ ~HasArg(all_events[2].Arguments, 0, "address")
    /\ ~HasArg(all_events[2].Arguments, 1, "address")
    /\ Len(processed) = 1

\* a position record with a liquidity return and no argument named tokenId
LiquidityWithoutTokenId(call) ==
    /\ \E r \in Range(call.Returns) : r.Name = "liquidity" /\ r.Value.tag = "bigInteger"
    /\ \A a \in Range(call.Arguments) : a.Name # "tokenId"

\* the snapshots are the records, one for one, with the liquidity string kept
SnapshotPerRecord ==
    /\ Len(processed) = Len(all_events)
    /\ \A i \in 1..Len(all_events) :
           /\ processed[i].timestamp = all_events[i].Block.Time
           /\ LiquidityWithoutTokenId(all_events[i]) =>
                  /\ processed[i].liquidity
                         = ReturnNamed(all_events[i].Returns, "liquidity", "bigInteger")
                  /\ processed[i].tokenId = None

DefaultsOnMiss(token) ==
    token.address \notin LookupKeys => (token.decimals = 18 /\ token.symbol = Unknown)

\* the record's token address at the side (0 or 1), as the run reads it
TokenAddressOf(call, side) ==
    IF pipeline = "mint"
    THEN ArgAt(call.Arguments, side, "address")
    ELSE ReturnNamed(call.Returns, IF side = 0 THEN "token0" ELSE "token1", "address")

EmittedWithDefaults ==
    /\ Len(processed) = Cardinality(Emittable)
    /\ \A k \in 1..Len(processed) :
           /\ processed[k].token0.address = TokenAddressOf(all_events[NthEmittable(k)], 0)
           /\ processed[k].token1.address = TokenAddressOf(all_events[NthEmittable(k)], 1)
           /\ DefaultsOnMiss(processed[k].token0)
           /\ DefaultsOnMiss(processed[k].token1)

-----------------------------------------------------------------------------
(* Properties of the token descriptors *)

\* the token descriptors of the emitted events
EmittedTokens ==
    IF pc = "done" /\ pipeline \in {"mint", "positions"}
    THEN UNION {{processed[k].token0, processed[k].token1} : k \in 1..Len(processed)}
    ELSE {}

\* C11: a token that is a key of the decimals map and whose currency record
\* carried no symbol is reported with symbol "Unknown": no emitted token
\* descriptor has a null symbol.
C11_SymbolNeverNull ==
    \A token \in EmittedTokens :
        /\ token.symbol # None
        /\ (token.address \in LookupKeys /\ Get(token_decimals, token.address).symbol = None)
               => token.symbol = Unknown

-----------------------------------------------------------------------------
(* create_token_decimals_lookup called on its own *)

\* longest Transfers list handed to create_token_decimals_lookup
MaxTransfers == 3

\* no creators run is under way
NoCreatorsRun ==
    /\ response = <<>>
    /\ creators_data = <<>>
    /\ idx = 0
    /\ creator_stats = <<>>
    /\ mutated = FALSE
    /\ top_n = 0
    /\ rankings = [m \in Metrics |-> <<>>]

\* no mint run and no positions run is under way
NoPipelineRun ==
    /\ include_realtime = FALSE
    /\ responses = <<>>
    /\ all_events = <<>>
    /\ token_addresses = {}
    /\ token_decimals = <<>>
    /\ processed = NoResult

\* The Currency records a Transfers list is drawn from: contract A with 6
\* decimals, with 0 decimals and with no decimal count (each under another symbol
\* and name), contract B with decimals and no symbol, B with no decimal count, a
\* record with an empty and one with no SmartContract.
TransferCurrencies ==
    { CurrencyNamed(<<"A">>, SomeInt(6), <<"S">>, <<"N">>),
      CurrencyNamed(<<"A">>, SomeInt(0), <<"T">>, <<"M">>),
      CurrencyNamed(<<"A">>, NoInt, <<"V">>, <<"W">>),
      CurrencyNamed(<<"B">>, SomeInt(18), None, None),
      CurrencyNamed(<<"B">>, NoInt, <<"S">>, <<"N">>),
      CurrencyNamed(<<>>, SomeInt(6), <<"S">>, <<"N">>),
      CurrencyNamed(None, SomeInt(6), <<"S">>, <<"N">>) }

InitLookup ==
    /\ pc = "start"
    /\ pipeline = "create_token_decimals_lookup"
    /\ inputs \in SeqsUpTo(TransferCurrencies, MaxTransfers)
    /\ output = NoResult
    /\ stages = {}
    /\ NoCreatorsRun
    /\ NoPipelineRun

\* create_token_decimals_lookup(decimals_response), of both files
CallCreateLookup ==
    /\ pc = "start"
    /\ pipeline = "create_token_decimals_lookup"
    /\ output' = [lookup |-> CreateLookup(inputs), file_lookup |-> CreateLookupOfFile(inputs)]
    /\ pc' = "done"
    /\ UNCHANGED <<pipeline, inputs, stages>>
    /\ UNCHANGED creatorVars
    /\ UNCHANGED <<include_realtime, all_events, token_addresses, token_decimals, processed,
                 responses>>

SpecLookup == InitLookup /\ [][CallCreateLookup]_vars

LookupDone == pc = "done" /\ pipeline = "create_token_decimals_lookup"

\* the positions in the input of the records that enter the map under an address
EnteringAt(a) ==
    {i \in 1..Len(inputs) : /\ inputs[i].SmartContract = a
                            /\ a \notin {None, <<>>}
                            /\ inputs[i].Decimals # NoInt}

EnteringAddresses == {inputs[i].SmartContract : i \in UNION {EnteringAt(inputs[j].SmartContract) : j \in 1..Len(inputs)}}

\* C12: the keys of the map are exactly the non-empty contract identifiers of
\* the records that carry a decimal count; a record with no decimal count enters
\* nothing, a record with decimal count 0 is entered with decimals 0, and the
\* empty input gives the empty map.
C12_LookupKeys ==
    LookupDone =>
        \A lk \in {output.lookup, output.file_lookup} :
            /\ Range(Keys(lk)) = EnteringAddresses
            /\ Len(lk) = Cardinality(EnteringAddresses)
            /\ \A i \in 1..Len(inputs) :
                   (inputs[i].Decimals = NoInt /\ EnteringAt(inputs[i].SmartContract) = {})
                       => ~HasKey(lk, inputs[i].SmartContract)
            /\ \A i \in 1..Len(inputs) :
                   (inputs[i].Decimals = SomeInt(0)
                        /\ EnteringAt(inputs[i].SmartContract) = {i})
                       => (HasKey(lk, inputs[i].SmartContract)
                               /\ Get(lk, inputs[i].SmartContract).decimals = 0)
            /\ (inputs = <<>> => lk = <<>>)

\* a map with A entered at decimals 0 from its only record with a decimal
\* count, B's record without one left out
C12_Witness ==
    /\ LookupDone
    /\ Len(inputs) = 3
    /\ Cardinality(EnteringAt(<<"A">>)) = 1
    /\ \E i \in 1..Len(inputs) : inputs[i].SmartContract = <<"B">> /\ inputs[i].Decimals = NoInt
    /\ Len(output.lookup) = 1
    /\ Get(output.lookup, <<"A">>).decimals = 0

\* the position in the input of the last record that enters under an address
LastEntering(a) == CHOOSE i \in EnteringAt(a) : \A j \in EnteringAt(a) : j <= i

\* C13: the entry of an address holds the decimals, symbol and name of the last
\* input record of that address that carries a decimal count; a later record of
\* the address without a decimal count neither overwrites nor removes it.
C13_LastRecordWins ==
    LookupDone =>
        \A lk \in {output.lookup, output.file_lookup} :
            \A a \in EnteringAddresses :
                /\ HasKey(lk, a)
                /\ Get(lk, a).decimals = IntOf(inputs[LastEntering(a)].Decimals)
                /\ Get(lk, a).symbol = inputs[LastEntering(a)].Symbol
                /\ Get(lk, a).name = inputs[LastEntering(a)].Name

\* A with 6 decimals, then A with 0 decimals, then A with no decimal count
C13_Witness ==
    /\ LookupDone
    /\ Len(inputs) = 3
    /\ inputs[1].SmartContract = <<"A">> /\ inputs[1].Decimals = SomeInt(6)
    /\ inputs[2].SmartContract = <<"A">> /\ inputs[2].Decimals = SomeInt(0)
    /\ inputs[3].SmartContract = <<"A">> /\ inputs[3].Decimals = NoInt
    /\ Get(output.lookup, <<"A">>) = [decimals |-> 0, symbol |-> <<"T">>, name |-> <<"M">>]

-----------------------------------------------------------------------------
(* convert_amount called on its own *)

\* largest decimals handed to convert_amount
MaxDecimals == 18

\* The raw amounts convert_amount is called with: None, the empty string,
\* strings that are no integer, integers (zero, with leading zeros, negative,
\* with trailing zeros), and integers around the largest finite double.
RawAmounts ==
    { None, <<>>, <<"x">>, <<"1", ".", "5">>, <<"-">>,
      <<"0">>, <<"2", "5">>, <<"0", "0", "7">>, <<"-", "5">>, <<"1", "0", "0", "0">>,
      PowerOfTen(77), PowerOfTen(308), PowerOfTen(309), PowerOfTen(311),
      FloatOverflowLimit }

InitConvert ==
    /\ pc = "start"
    /\ pipeline = "convert_amount"
    /\ inputs \in [raw_amount : RawAmounts, decimals : 0..MaxDecimals]
    /\ output = NoResult
    /\ stages = {}
    /\ NoCreatorsRun
    /\ NoPipelineRun

\* convert_amount(raw_amount, decimals), of both files: the float, or the OverflowError
CallConvertAmount ==
    /\ pc = "start"
    /\ pipeline = "convert_amount"
    /\ IF \/ ConvertAmountRaises(inputs.raw_amount, inputs.decimals)
          \/ PositionsConvertAmountRaises(inputs.raw_amount, inputs.decimals)
       THEN pc' = "raised" /\ UNCHANGED output
       ELSE /\ pc' = "done"
            /\ output' = [mint_burn |-> ConvertAmount(inputs.raw_amount, inputs.decimals),
                          positions |-> PositionsConvertAmount(inputs.raw_amount, inputs.decimals)]
    /\ UNCHANGED <<pipeline, inputs, stages>>
    /\ UNCHANGED creatorVars
    /\ UNCHANGED <<include_realtime, all_events, token_addresses, token_decimals, processed,
                 responses>>

SpecConvert == InitConvert /\ [][CallConvertAmount]_vars

\* the raw amount is a string that is a base-10 integer >= 0
IsNaturalString(s) == s # None /\ Len(s) > 0 /\ AllDigits(s)

\* C14: for every decimals >= 0 and every raw amount that is a base-10 integer
\* >= 0 the result is int(s) / 10**decimals; for a raw amount that is no integer
\* or is None it is 0.0; and the call never raises.
C14_ConvertAmountTotal ==
    pipeline = "convert_amount" =>
        /\ pc # "raised"
        /\ pc = "done" =>
               \A copy \in {output.mint_burn, output.positions} :
                   /\ IsNaturalString(inputs.raw_amount)
                          => copy = Quotient(FALSE, StripZeros(inputs.raw_amount), inputs.decimals)
                   /\ ~IntParses(inputs.raw_amount) => copy = ZeroAmount

-----------------------------------------------------------------------------
(* calculate_price_from_tick called on its own *)

\* The ticks calculate_price_from_tick is called with: no number, the bounds of
\* Uniswap's tick range, ticks around 0, and ticks around the largest one whose
\* power is a finite double.
TickInputs ==
    {NoInt} \cup {SomeInt(t) : t \in {-887272, -1, 0, 1, 887272, 7000000, MaxFiniteTick,
                                      MaxFiniteTick + 1}}

\* The decimals it is called with: no number, 0..MaxDecimals, and counts whose
\* differences pass the exact powers of ten (24), the uint8 range (255) and the
\* finite doubles (309, 400).
DecimalsInputs ==
    {NoInt} \cup {SomeInt(d) : d \in (0..MaxDecimals) \cup {24, 255, 309, 400}}

InitPrice ==
    /\ pc = "start"
    /\ pipeline = "calculate_price_from_tick"
    /\ inputs \in [tick : TickInputs, token0_decimals : DecimalsInputs,
                   token1_decimals : DecimalsInputs]
    /\ output = NoResult
    /\ stages = {}
    /\ NoCreatorsRun
    /\ NoPipelineRun

\* calculate_price_from_tick(tick, token0_decimals, token1_decimals), of both files
CallCalculatePrice ==
    /\ pc = "start"
    /\ pipeline = "calculate_price_from_tick"
    /\ output' = [mint_burn |-> PriceFromTick(inputs.tick, inputs.token0_decimals,
                                              inputs.token1_decimals),
                  positions |-> PositionsPriceFromTick(inputs.tick, inputs.token0_decimals,
                                                       inputs.token1_decimals)]
    /\ pc' = "done"
    /\ UNCHANGED <<pipeline, inputs, stages>>
    /\ UNCHANGED creatorVars
    /\ UNCHANGED <<include_realtime, all_events, token_addresses, token_decimals, processed,
                 responses>>

SpecPrice == InitPrice /\ [][CallCalculatePrice]_vars

PriceDone == pc = "done" /\ pipeline = "calculate_price_from_tick"

\* the three arguments are ints
NumericInputs ==
    inputs.tick # NoInt /\ inputs.token0_decimals # NoInt /\ inputs.token1_decimals # NoInt

\* decimals0 - decimals1 of the call
DecimalsDifference == IntOf(inputs.token0_decimals) - IntOf(inputs.token1_decimals)

\* "price == 10 ** n": for n < 0 Python's 10 ** n is the float 10.0 ** n, for
\* n >= 0 it is the int, which a float equals only if the int is a double
EqualsPowerOfTen(price, n) ==
    price = FiniteProduct(0, n) /\ (n >= 0 => n <= ExactPowerOfTen)

\* "price == 1.0001 ** tick", where the right-hand side is a float at all
EqualsPowerOfBase(price, tick) ==
    tick <= MaxFiniteTick /\ price = FiniteProduct(tick, 0)

\* C15 as claimed: for every pair of integers d0, d1 the result at tick 0 equals
\* 10**(d0-d1), for every tick and every d the result with equal decimals
\* equals 1.0001**tick, and the two copies return the same value.
C15_PriceForAllIntegers ==
    (PriceDone /\ NumericInputs) =>
        /\ output.mint_burn = output.positions
        /\ inputs.tick = SomeInt(0) => EqualsPowerOfTen(output.mint_burn, DecimalsDifference)
        /\ inputs.token0_decimals = inputs.token1_decimals
               => EqualsPowerOfBase(output.mint_burn, IntOf(inputs.tick))

\* C15 amended: the two copies agree; at tick 0 the result equals
\* 10**(d0-d1) for d0-d1 <= 22 (exactly the integer for 0..22), is the double
\* nearest to it for 23..308 and is 0.0 beyond 308; with equal decimals the
\* result equals 1.0001**tick up to tick 7098182 and is 0.0 for a greater tick.
C15_PriceWithinTheDoubles ==
    (PriceDone /\ NumericInputs) =>
        /\ output.mint_burn = output.positions
        /\ inputs.tick = SomeInt(0) =>
               /\ DecimalsDifference <= ExactPowerOfTen
                      => EqualsPowerOfTen(output.mint_burn, DecimalsDifference)
               /\ DecimalsDifference \in (ExactPowerOfTen + 1)..MaxPowerOfTen
                      => output.mint_burn = FiniteProduct(0, DecimalsDifference)
               /\ DecimalsDifference > MaxPowerOfTen => output.mint_burn = ZeroPrice
        /\ inputs.token0_decimals = inputs.token1_decimals =>
               /\ IntOf(inputs.tick) <= MaxFiniteTick
                      => EqualsPowerOfBase(output.mint_burn, IntOf(inputs.tick))
               /\ IntOf(inputs.tick) > MaxFiniteTick => output.mint_burn = ZeroPrice

\* tick 0 with decimals 18 and 6: the price is 10**12
C15_Witness ==
    /\ PriceDone
    /\ inputs = [tick |-> SomeInt(0), token0_decimals |-> SomeInt(18),
                 token1_decimals |-> SomeInt(6)]
    /\ EqualsPowerOfTen(output.mint_burn, 12)
    /\ output.positions = output.mint_burn

\* an error in computing the power, the adjustment or their product
PriceComputationFails ==
    \/ ~NumericInputs
    \/ PowerOverflows(IntOf(inputs.tick))
    \/ AdjustmentOverflows(DecimalsDifference)
    \/ ProductOverflows(IntOf(inputs.tick), DecimalsDifference)

\* C16: calculate_price_from_tick propagates no error, and an overflow, type
\* or value error in computing 1.0001^tick, 10^(d0-d1) or their product gives 0.0.
C16_PriceErrorsGiveZero ==
    pipeline = "calculate_price_from_tick" =>
        /\ pc # "raised"
        /\ (pc = "done" /\ PriceComputationFails)
               => (output.mint_burn = ZeroPrice /\ output.positions = ZeroPrice)

-----------------------------------------------------------------------------
(* Properties of the price band *)

\* the events and snapshots a finished run emitted
EmittedEvents ==
    IF pc = "done" /\ pipeline \in {"mint", "positions"}
    THEN {processed[k] : k \in 1..Len(processed)}
    ELSE {}

\* C17: in every emitted position snapshot and mint event price_band.lower
\* and price_band.upper are both present exactly when ticks.lower and ticks.upper
\* are both present, and both None when either tick is None; a tick of 0 is present.
C17_PriceBandIffBothTicks ==
    \A event \in EmittedEvents :
        /\ (event.ticks.lower # NoInt /\ event.ticks.upper # NoInt)
               => (event.price_band.lower # NoPrice /\ event.price_band.upper # NoPrice)
        /\ (event.ticks.lower = NoInt \/ event.ticks.upper = NoInt)
               => (event.price_band.lower = NoPrice /\ event.price_band.upper = NoPrice)

\* a run that emitted an event with the ticks -10 and 0 and both prices, and an
\* event with one tick and no price
C17_Witness ==
    /\ \E event \in EmittedEvents :
           /\ event.ticks = [lower |-> SomeInt(0 - 10), upper |-> SomeInt(0)]
           /\ event.price_band.lower # NoPrice
           /\ event.price_band.upper = {FiniteProduct(0, event.token0.decimals
                                                         - event.token1.decimals)}
    /\ \E event \in EmittedEvents :
           /\ event.ticks = [lower |-> SomeInt(10), upper |-> NoInt]
           /\ event.price_band = [lower |-> NoPrice, upper |-> NoPrice]

-----------------------------------------------------------------------------
(* The three extractions side by side: creation events, mint events, position
   snapshots *)

InitRuns == InitCreators \/ InitMint \/ InitPositions

NextRuns ==
    Extract \/ AnalyzeStep \/ AnalyzeFinish \/ MutateStats \/ Rank
        \/ FetchHistorical \/ FetchRealtime \/ SkipRealtime \/ EmptyBatch \/ ResolveDecimals
        \/ ProcessMint \/ ProcessPositionCalls

SpecRuns == InitRuns /\ [][NextRuns]_vars

\* the tick of the record at the index / of the name is absent or of another variant
NoTickValue(call, index, name) ==
    IF pipeline = "positions"
    THEN ~HasReturn(call.Returns, name, "bigInteger")
    ELSE ~HasArg(call.Arguments, index, "bigInteger")

\* the events of the run, and for each the record it was made from
EventsOfRun ==
    IF pipeline = "creators"
    THEN IF pc \in {"start", "raised"} THEN <<>>
         ELSE [k \in 1..Len(creators_data) |->
                   [ticks |-> [lower |-> creators_data[k].tick_lower,
                               upper |-> creators_data[k].tick_upper],
                    call |-> response[NthSenderCall(k)]]]
    ELSE IF pc # "done" THEN <<>>
         ELSE [k \in 1..Len(processed) |->
                   [ticks |-> processed[k].ticks, call |-> all_events[NthEmittable(k)]]]

\* the number of records the run has to emit
RecordsToEmit ==
    IF pipeline = "creators" THEN Cardinality(SenderCalls) ELSE Cardinality(Emittable)

\* C18: extraction never raises on a missing or malformed tagged value (the
\* one raise left is that of a well-formed amount beyond the floats): every record
\* of the batch is emitted, or dropped for its missing sender or token, and a tick
\* that is absent or of the wrong variant is None in its event.
C18_ExtractionNeverRaises ==
    /\ pc = "raised" => SomeAmountBeyondFloats
    /\ (pipeline = "creators" /\ pc \notin {"start", "raised"})
           => Len(creators_data) = RecordsToEmit
    /\ (pipeline \in {"mint", "positions"} /\ pc = "done") => Len(processed) = RecordsToEmit
    /\ \A k \in 1..Len(EventsOfRun) :
           /\ NoTickValue(EventsOfRun[k].call, 3, "tickLower")
                  => EventsOfRun[k].ticks.lower = NoInt
           /\ NoTickValue(EventsOfRun[k].call, 4, "tickUpper")
                  => EventsOfRun[k].ticks.upper = NoInt

-----------------------------------------------------------------------------
(* Properties of the big-integer fields *)

\* each event of the run with the record it was made from
RunEvents ==
    IF pipeline = "creators"
    THEN IF pc \in {"start", "raised"} THEN <<>>
         ELSE [k \in 1..Len(creators_data) |->
                   [event |-> creators_data[k], call |-> response[NthSenderCall(k)]]]
    ELSE IF pc # "done" THEN <<>>
         ELSE [k \in 1..Len(processed) |->
                   [event |-> processed[k], call |-> all_events[NthEmittable(k)]]]

\* the bigInteger strings of the record: of the Returns of a name, of the
\* Arguments at an index, of the Arguments of a name
ReturnStrings(call, name) ==
    {r.Value.val : r \in {x \in Range(call.Returns) :
                              x.Name = name /\ x.Value.tag = "bigInteger"}}

ArgumentStrings(call, index) ==
    {a.Value.val : a \in {x \in Range(call.Arguments) :
                              x.Index = index /\ x.Value.tag = "bigInteger"}}

NamedArgumentStrings(call, name) ==
    {a.Value.val : a \in {x \in Range(call.Arguments) :
                              x.Name = name /\ x.Value.tag = "bigInteger"}}

\* the field is one of the record's strings, character for character, or None
\* when the record has none
KeptAsString(field, strings) ==
    IF strings = {} THEN field = None ELSE field \in strings

\* C20: the liquidity, tokenId, fee and deadline of an emitted creation event,
\* mint event or position snapshot are exactly bigInteger strings of the input
\* record (None when the record has none), never a number.
C20_BigIntegersKeptAsStrings ==
    \A k \in 1..Len(RunEvents) :
        LET event == RunEvents[k].event
            call == RunEvents[k].call
        IN /\ pipeline = "creators" =>
                  /\ KeptAsString(event.token_id, ReturnStrings(call, "tokenId"))
                  /\ KeptAsString(event.liquidity, ReturnStrings(call, "liquidity"))
                  /\ KeptAsString(event.fee, ArgumentStrings(call, 2))
           /\ pipeline = "mint" =>
                  /\ KeptAsString(event.fee, ArgumentStrings(call, 2))
                  /\ KeptAsString(event.deadline, ArgumentStrings(call, 10))
           /\ pipeline = "positions" =>
                  /\ event.tokenId = None
                         \/ event.tokenId \in NamedArgumentStrings(call, "tokenId")
                  /\ KeptAsString(event.liquidity, ReturnStrings(call, "liquidity"))
                  /\ KeptAsString(event.fee, ReturnStrings(call, "fee"))

\* a positions run that emitted the liquidity 123456789 of a record with no
\* tokenId, and a snapshot with tokenId 7, liquidity 50 and fee 500
C20_Witness ==
    /\ pipeline = "positions"
    /\ \E k \in 1..Len(RunEvents) :
           /\ RunEvents[k].event.liquidity = <<"1", "2", "3", "4", "5", "6", "7", "8", "9">>
           /\ RunEvents[k].event.tokenId = None
    /\ \E k \in 1..Len(RunEvents) :
           /\ RunEvents[k].event.tokenId = <<"7">>
           /\ RunEvents[k].event.liquidity = <<"5", "0">>
           /\ RunEvents[k].event.fee = <<"5", "0", "0">>

-----------------------------------------------------------------------------
(* The entry points: main() of process_mint_burn.py, process_positions.py and
   analyze_position_creators.py, and run_burn_analysis.py *)

\* top_n of the call in main
MainTopN == 20

\* the classes bitquery_client.py defines, and the name process_burn.py imports
ClientClasses == {"BitqueryClient"}
BurnClientImport == "BitQueryClient"

\* analyze_top_creators(creators_data), start to end
RECURSIVE FoldEvents(_, _)
FoldEvents(d, events) ==
    IF events = <<>> THEN d ELSE FoldEvents(FoldEvent(d, Head(events)), Tail(events))

AnalyzeTopCreators(events) == ConvertSets(FoldEvents(<<>>, events))

InitCreatorsMain ==
    /\ pc = "main"
    /\ pipeline = "creators_main"
    /\ response \in SeqsUpTo(CreatorCalls, MaxCalls)
    /\ creators_data = <<>>
    /\ idx = 0
    /\ creator_stats = <<>>
    /\ mutated = FALSE
    /\ top_n = 0
    /\ rankings = [m \in Metrics |-> <<>>]
    /\ NoPipelineRun
    /\ stages = {}
    /\ inputs = NoResult
    /\ output = NoResult

\* the burn call records the two burn queries would return
BurnCalls ==
    {Call(<<"A">>, <<"1", ".", "0">>, <<"t", "1">>, <<>>,
          <<Arg(0, "tokenId", Big(<<"7">>))>>),
     Call(<<"B">>, <<"1", ".", "0">>, <<"t", "2">>, <<>>,
          <<Arg(0, "tokenId", Big(<<"7">>)), Arg(1, "tokenId", Big(<<"8">>))>>),
     Call(<<"A">>, <<"1", ".", "0">>, <<"t", "3">>, <<>>,
          <<Arg(0, "tokenId", Big(<<>>))>>),
     Call(<<"B">>, <<"1", ".", "0">>, <<"t", "4">>, <<>>,
          <<Arg(0, "token0", Addr(<<"A">>)), Arg(1, "token1", Addr(<<"B">>))>>)}

\* parse_burn_arguments(arguments).get('tokenId')
RECURSIVE ParseBurnArguments(_)
ParseBurnArguments(arguments) ==
    IF arguments = <<>> THEN None
    ELSE LET last == arguments[Len(arguments)]
         IN IF last.Name = "tokenId" /\ last.Value.tag = "bigInteger"
            THEN last.Value.val
            ELSE ParseBurnArguments(SubSeq(arguments, 1, Len(arguments) - 1))

\* event_data of one burn record
BurnEvent(call) ==
    [event_type |-> <<"b", "u", "r", "n">>,
     tokenId |-> ParseBurnArguments(call.Arguments),
     transaction |-> [hash |-> call.Transaction.Hash,
                      from |-> call.Transaction.From,
                      to |-> None,
                      value_in_usd |-> call.Transaction.ValueInUSD,
                      time |-> None],
     block |-> [number |-> call.Block.Number, time |-> call.Block.Time]]

\* the loop of process_burn_events over the combined records
RECURSIVE ProcessBurnEvents(_)
ProcessBurnEvents(calls) ==
    IF calls = <<>> THEN <<>>
    ELSE IF ParseBurnArguments(Head(calls).Arguments) \in {None, <<>>}
         THEN ProcessBurnEvents(Tail(calls))
         ELSE <<BurnEvent(Head(calls))>> \o ProcessBurnEvents(Tail(calls))

\* response: the records the burn queries would return
InitBurn ==
    /\ pc = "import"
    /\ pipeline = "burn"
    /\ response \in SeqsUpTo(BurnCalls, MaxCalls)
    /\ creators_data = <<>>
    /\ idx = 0
    /\ creator_stats = <<>>
    /\ mutated = FALSE
    /\ top_n = 0
    /\ rankings = [m \in Metrics |-> <<>>]
    /\ NoPipelineRun
    /\ stages = {}
    /\ inputs = NoResult
    /\ output = NoResult

InitMains == InitCreators \/ InitMint \/ InitPositions \/ InitCreatorsMain \/ InitBurn

\* main of the creators: "if not response...get('Calls'): return"
MainNoCalls ==
    /\ pc = "main"
    /\ pipeline = "creators_main"
    /\ response = <<>>
    /\ pc' = "finished"
    /\ UNCHANGED <<pipeline, stages>>
    /\ UNCHANGED creatorVars
    /\ UNCHANGED <<include_realtime, all_events, token_addresses, token_decimals, processed,
                 responses>>
    /\ UNCHANGED functionVars

\* main of the creators: extract_position_creators_from_response(response)
MainExtract ==
    /\ pc = "main"
    /\ pipeline = "creators_main"
    /\ response # <<>>
    /\ IF ExtractRaises(response)
       THEN pc' = "raised" /\ UNCHANGED creators_data
       ELSE pc' = "main_extracted" /\ creators_data' = ExtractCreators(response)
    /\ stages' = stages \cup {"extraction"}
    /\ UNCHANGED <<pipeline, response, idx, creator_stats, mutated, top_n, rankings>>
    /\ UNCHANGED <<include_realtime, all_events, token_addresses, token_decimals, processed,
                 responses>>
    /\ UNCHANGED functionVars

\* main of the creators: "if not creators_data: return"
MainNoCreators ==
    /\ pc = "main_extracted"
    /\ creators_data = <<>>
    /\ pc' = "finished"
    /\ UNCHANGED <<pipeline, stages>>
    /\ UNCHANGED creatorVars
    /\ UNCHANGED <<include_realtime, all_events, token_addresses, token_decimals, processed,
                 responses>>
    /\ UNCHANGED functionVars

\* main of the creators: analyze_top_creators and rank_creators(creator_stats, top_n=20)
MainAnalyzeAndRank ==
    /\ pc = "main_extracted"
    /\ creators_data # <<>>
    /\ idx' = Len(creators_data)
    /\ creator_stats' = AnalyzeTopCreators(creators_data)
    /\ top_n' = MainTopN
    /\ rankings' = RankCreators(AnalyzeTopCreators(creators_data), MainTopN)
    /\ pc' = "main_ranked"
    /\ stages' = stages \cup {"aggregation", "ranking"}
    /\ UNCHANGED <<pipeline, response, creators_data, mutated>>
    /\ UNCHANGED <<include_realtime, all_events, token_addresses, token_decimals, processed,
                 responses>>
    /\ UNCHANGED functionVars

\* main of the creators: save_creator_analysis(creator_stats, rankings)
SaveCreatorAnalysis ==
    /\ pc = "main_ranked"
    /\ pc' = "saved"
    /\ stages' = stages \cup {"file"}
    /\ UNCHANGED pipeline
    /\ UNCHANGED creatorVars
    /\ UNCHANGED <<include_realtime, all_events, token_addresses, token_decimals, processed,
                 responses>>
    /\ UNCHANGED functionVars

\* main of the mint events / of the positions: "if processed_events:" saves the file
SaveProcessed ==
    /\ pc = "done"
    /\ pipeline \in {"mint", "positions"}
    /\ processed # <<>>
    /\ pc' = "saved"
    /\ stages' = stages \cup {"file"}
    /\ UNCHANGED pipelineVars
    /\ UNCHANGED creatorVars
    /\ UNCHANGED functionVars

\* main of the mint events / of the positions: the else branch, for None and for []
NothingProcessed ==
    /\ pipeline \in {"mint", "positions"}
    /\ pc = "returned" \/ (pc = "done" /\ processed = <<>>)
    /\ pc' = "finished"
    /\ UNCHANGED stages
    /\ UNCHANGED pipelineVars
    /\ UNCHANGED creatorVars
    /\ UNCHANGED functionVars

\* "except Exception as e: print(...)" of the three mains
MainCatch ==
    /\ pc = "raised"
    /\ pipeline \in {"mint", "positions", "creators_main"}
    /\ pc' = "caught"
    /\ UNCHANGED stages
    /\ UNCHANGED pipelineVars
    /\ UNCHANGED creatorVars
    /\ UNCHANGED functionVars

\* run_burn_analysis.py: "from process_burn import main" runs process_burn.py, whose
\* "from bitquery_client import BitQueryClient" raises ImportError when the module
\* has no such name; nothing is around either import.  Only after the import can
\* main() call process_burn_events.
ImportBurn ==
    /\ pc = "import"
    /\ pipeline = "burn"
    /\ IF BurnClientImport \in ClientClasses
       THEN /\ pc' = "done"
            /\ processed' = ProcessBurnEvents(response)
       ELSE /\ pc' = "raised"
            /\ processed' = processed
    /\ UNCHANGED stages
    /\ UNCHANGED <<pipeline, include_realtime, token_addresses, token_decimals,
                   all_events, responses>>
    /\ UNCHANGED creatorVars
    /\ UNCHANGED functionVars

NextMains ==
    Extract \/ AnalyzeStep \/ AnalyzeFinish \/ MutateStats \/ Rank
        \/ FetchHistorical \/ FetchRealtime \/ SkipRealtime \/ EmptyBatch \/ ResolveDecimals
        \/ ProcessMint \/ ProcessPositionCalls
        \/ SaveProcessed \/ NothingProcessed \/ MainCatch
        \/ MainNoCalls \/ MainExtract \/ MainNoCreators \/ MainAnalyzeAndRank
        \/ SaveCreatorAnalysis \/ ImportBurn

SpecMains == InitMains /\ [][NextMains]_vars

\* the upstream query of the pipeline returned no call record
UpstreamEmpty ==
    \/ pipeline \in {"mint", "positions"} /\ pc \notin {"start", "fetched"} /\ all_events = <<>>
    \/ pipeline = "creators_main" /\ response = <<>>
    \/ pipeline = "burn" /\ response = <<>>

\* C19: when the upstream query returns no call record each pipeline
\* (positions, mint, burn, creators) finishes without raising, produces no event
\* and enters none of its downstream stages (decimals query, aggregation, ranking,
\* file); extract_position_creators_from_response, analyze_top_creators and
\* rank_creators on empty input return an empty list, an empty map and four
\* empty rankings.
C19_EmptyBatchIsNormal ==
    /\ UpstreamEmpty =>
           /\ pc # "raised"
           /\ stages = {}
           /\ processed \in {NoResult, <<>>}
           /\ creators_data = <<>>
    /\ (pipeline = "creators" /\ response = <<>>) =>
           /\ pc # "raised"
           /\ creators_data = <<>>
           /\ creator_stats = <<>>
           /\ \A m \in Metrics : rankings[m] = <<>>

-----------------------------------------------------------------------------
(* Properties of the time range, the fee tiers and the positions lists *)

\* the timestamps of the first n events that are of the address and carry one
TimestampsOf(a, n) ==
    {creators_data[j].timestamp :
        j \in {k \in EventsBy(a) : k <= n /\ creators_data[k].timestamp \notin {None, <<>>}}}

\* t is the least / the greatest string of T under Python's str comparison
IsLeast(t, T) == t \in T /\ \A u \in T : ~StrLess(u, t)
IsGreatest(t, T) == t \in T /\ \A u \in T : ~StrLess(t, u)

\* C21: after analyze_top_creators, for every address first_position_time is
\* the minimum and last_position_time the maximum, under string comparison, of
\* the timestamps of its events that carry one, in whatever order the events
\* arrive; an address whose events carry none has None for both.
C21_TimeRangeIsMinMax ==
    Analyzed =>
        \A i \in 1..Len(creator_stats) :
            LET st == creator_stats[i][2]
                T == TimestampsOf(creator_stats[i][1], Len(creators_data))
            IN IF T = {}
               THEN st.first_position_time = None /\ st.last_position_time = None
               ELSE /\ IsLeast(st.first_position_time, T)
                    /\ IsGreatest(st.last_position_time, T)

\* an address whose events arrived as "3" and then "10" (the first time is "10",
\* the last "3"), and an address whose first event has no timestamp
C21_Witness ==
    /\ Analyzed
    /\ \E i \in 1..Len(creator_stats) :
           LET st == creator_stats[i][2]
           IN /\ Len(st.positions) = 2
              /\ st.positions[1].timestamp = <<"3">>
              /\ st.positions[2].timestamp = <<"1", "0">>
              /\ st.first_position_time = <<"1", "0">>
              /\ st.last_position_time = <<"3">>
    /\ \E i \in 1..Len(creator_stats) :
           /\ creator_stats[i][2].positions[1].timestamp = None
           /\ creator_stats[i][2].first_position_time = None


\* the fees of the events of an address that carry one
FeesOf(a) == {creators_data[j].fee : j \in EventsBy(a)} \ {None, <<>>}

\* C24: after analyze_top_creators, for every address the fee tiers are the
\* fees its events carry, and fee_tiers[fee] is the number of its events whose
\* fee is that value; an event without a fee (None or empty) adds to no tier.
C24_FeeTiersCountEvents ==
    Analyzed =>
        \A i \in 1..Len(creator_stats) :
            LET a == creator_stats[i][1]
                tiers == creator_stats[i][2].fee_tiers
            IN /\ DOMAIN tiers = FeesOf(a)
               /\ \A fee \in DOMAIN tiers :
                      tiers[fee] = Cardinality({j \in EventsBy(a) : creators_data[j].fee = fee})

\* an address with two events of fee 3000, and an address whose event has no
\* fee and that has no tier
C24_Witness ==
    /\ Analyzed
    /\ \E i \in 1..Len(creator_stats) :
           /\ DOMAIN creator_stats[i][2].fee_tiers = {<<"3", "0", "0", "0">>}
           /\ creator_stats[i][2].fee_tiers[<<"3", "0", "0", "0">>] = 2
    /\ \E i \in 1..Len(creator_stats) :
           /\ creator_stats[i][2].total_positions = 1
           /\ creator_stats[i][2].positions[1].fee = None
           /\ DOMAIN creator_stats[i][2].fee_tiers = {}

\* the position in creators_data of the k-th event of the address
NthEventOf(a, k) == CHOOSE j \in EventsBy(a) : Cardinality({h \in EventsBy(a) : h <= j}) = k

\* the sum of the counts of a fee_tiers map
RECURSIVE SumTiers(_)
SumTiers(tiers) ==
    IF DOMAIN tiers = {} THEN 0
    ELSE LET fee == CHOOSE f \in DOMAIN tiers : TRUE
         IN tiers[fee] + SumTiers([f \in DOMAIN tiers \ {fee} |-> tiers[f]])

\* sum(stats['total_positions'] for stats in creator_stats.values())
RECURSIVE SumPositions(_)
SumPositions(d) ==
    IF d = <<>> THEN 0 ELSE Head(d)[2].total_positions + SumPositions(Tail(d))

\* C26: in the result of analyze_top_creators, for every address
\* total_positions is the length of its positions list, the list is the address's
\* input events in input order, unique_pairs_count and the sum of the fee_tiers
\* counts are at most total_positions, and the total_positions of all addresses
\* add up to the number of input events.
C26_PositionsListAndCounts ==
    Analyzed =>
        /\ \A i \in 1..Len(creator_stats) :
               LET a == creator_stats[i][1]
                   st == creator_stats[i][2]
               IN /\ st.total_positions = Len(st.positions)
                  /\ Len(st.positions) = Cardinality(EventsBy(a))
                  /\ \A k \in 1..Len(st.positions) :
                         st.positions[k] = creators_data[NthEventOf(a, k)]
                  /\ st.unique_pairs_count <= st.total_positions
                  /\ SumTiers(st.fee_tiers) <= st.total_positions
        /\ SumPositions(creator_stats) = Len(creators_data)

\* three events of two addresses, interleaved: the first and the third are of
\* one address, which has 2 positions and 1 pair
C26_Witness ==
    /\ Analyzed
    /\ Len(creators_data) = 3
    /\ creators_data[1].creator_address = creators_data[3].creator_address
    /\ creators_data[1].creator_address # creators_data[2].creator_address
    /\ creators_data[1] # creators_data[3]
    /\ creator_stats[1][2].positions = <<creators_data[1], creators_data[3]>>
    /\ creator_stats[1][2].unique_pairs_count = 1
    /\ SumPositions(creator_stats) = 3

\* the fold has processed the first idx events
Folding == pipeline = "creators" /\ pc \in {"extracted", "analyzed", "ranked"}

\* C28: after every step of the fold, for every address first_position_time
\* and last_position_time are both None or both set, first <= last under string
\* comparison when set, and both are None exactly when none of the address's
\* events so far carried a non-empty timestamp.
C28_TimeRangeWellFormed ==
    Folding =>
        \A i \in 1..Len(creator_stats) :
            LET st == creator_stats[i][2]
            IN /\ (st.first_position_time = None) <=> (st.last_position_time = None)
               /\ st.first_position_time # None
                      => ~StrLess(st.last_position_time, st.first_position_time)
               /\ (st.first_position_time = None)
                      <=> (TimestampsOf(creator_stats[i][1], idx) = {})

\* in the middle of the fold: an address with a set range whose ends differ and
\* an address that has had an empty timestamp only
C28_Witness ==
    /\ pipeline = "creators"
    /\ pc = "extracted"
    /\ idx = 2
    /\ idx < Len(creators_data)
    /\ creators_data[1].timestamp = <<>>
    /\ creators_data[3].timestamp # <<>>
    /\ Len(creator_stats) = 2
    /\ creator_stats[1][2].first_position_time = None
    /\ creator_stats[1][2].last_position_time = None
    /\ creator_stats[2][2].first_position_time # None


\* the record of the address before a step: the default record if it has none yet
RecordBefore(a) == IF HasKey(creator_stats, a) THEN Get(creator_stats, a) ELSE NewStats

\* the record after the step is the record before it, grown
Grown(before, after, ev) ==
    /\ after.total_positions >= before.total_positions
    /\ before.unique_pairs \subseteq after.unique_pairs
    /\ \A fee \in DOMAIN before.fee_tiers :
           fee \in DOMAIN after.fee_tiers /\ after.fee_tiers[fee] >= before.fee_tiers[fee]
    /\ Len(after.positions) >= Len(before.positions)
    /\ SubSeq(after.positions, 1, Len(before.positions)) = before.positions
    /\ before.first_position_time # None =>
           /\ after.first_position_time # None
           /\ ~StrLess(before.first_position_time, after.first_position_time)
    /\ before.last_position_time # None =>
           /\ after.last_position_time # None
           /\ ~StrLess(after.last_position_time, before.last_position_time)
    /\ LiquidityOf(ev) >= 0 => after.total_liquidity >= before.total_liquidity
    /\ UsdHalvesOf(ev) >= 0 => after.total_usd_value >= before.total_usd_value

\* one iteration of the fold: the keys stay, in their order, the creator's key is
\* there afterwards (new at the end if it was not), the other records are the
\* same, and the creator's record has grown
FoldStepGrows ==
    (pipeline = "creators" /\ pc = "extracted" /\ idx' = idx + 1) =>
        LET ev == creators_data[idx + 1]
            a == ev.creator_address
        IN /\ Len(creator_stats') = Len(creator_stats) + (IF HasKey(creator_stats, a) THEN 0 ELSE 1)
           /\ \A k \in 1..Len(creator_stats) :
                  /\ creator_stats'[k][1] = creator_stats[k][1]
                  /\ creator_stats[k][1] # a => creator_stats'[k] = creator_stats[k]
           /\ HasKey(creator_stats', a)
           /\ Grown(RecordBefore(a), Get(creator_stats', a), ev)

\* C23: during the fold, one event at a time, the records are those of the
\* addresses of the events processed so far (a record exists from the step of the
\* address's first event), no record is ever removed, each step changes only the
\* record of the event's creator_address, and in it total_positions, the pair
\* set, every fee tier and the event list never shrink, first_position_time never
\* increases, last_position_time never decreases, and the totals never decrease
\* for a non-negative liquidity and USD value.
C23_FoldGrowsRecords ==
    /\ [](Folding => Range(Keys(creator_stats))
                         = {creators_data[j].creator_address : j \in 1..idx})
    /\ [][FoldStepGrows]_vars

\* in the middle of the fold: one address has had two events, the next event is
\* of another address
C23_Witness ==
    /\ pipeline = "creators"
    /\ pc = "extracted"
    /\ idx = 2
    /\ Len(creators_data) = 3
    /\ Len(creator_stats) = 1
    /\ creator_stats[1][2].total_positions = 2
    /\ creators_data[3].creator_address # creator_stats[1][1]


\* C27: rank_creators leaves the stats map as it is (same keys, same records,
\* same order); every entry of every ranking is an entry of the map, no address
\* is twice in one ranking, and the four rankings have the same length.
C27_RankLeavesStats ==
    /\ [][(pipeline = "creators" /\ pc = "analyzed" /\ pc' = "ranked")
              => creator_stats' = creator_stats]_vars
    /\ [](pc = "ranked" =>
              \A m \in Metrics :
                  /\ \A i \in 1..Len(rankings[m]) :
                         \E k \in 1..Len(creator_stats) : rankings[m][i] = creator_stats[k]
                  /\ \A i \in 1..Len(rankings[m]) : \A j \in 1..Len(rankings[m]) :
                         rankings[m][i][1] = rankings[m][j][1] => i = j
                  /\ \A other \in Metrics : Len(rankings[m]) = Len(rankings[other]))

\* a ranking of three addresses cut to two, led by the address the map holds last
C27_Witness ==
    /\ pc = "ranked"
    /\ Len(creator_stats) = 3
    /\ \A m \in Metrics : Len(rankings[m]) = 2
    /\ rankings["by_liquidity"][1] = creator_stats[3]
    /\ Keys(creator_stats) = [k \in 1..3 |-> creators_data[k].creator_address]

-----------------------------------------------------------------------------
(* Properties of the two fetches *)

\* the records a response carries: none when the request failed
RecordsOf(resp) == IF resp.failed THEN <<>> ELSE resp.Calls

\* the records of the historical response, then those of the real-time response
RECURSIVE CombinedRecords(_)
CombinedRecords(resps) ==
    IF resps = <<>> THEN <<>> ELSE RecordsOf(Head(resps)) \o CombinedRecords(Tail(resps))

\* the events are made, in order, from some of the records
RECURSIVE EventsFromSomeOf(_, _)
EventsFromSomeOf(events, records) ==
    IF events = <<>> THEN TRUE
    ELSE IF records = <<>> THEN FALSE
    ELSE IF Head(events) = MintEvent(Head(records), token_decimals)
         THEN EventsFromSomeOf(Tail(events), Tail(records))
         ELSE EventsFromSomeOf(events, Tail(records))

\* C25: every event process_mint_events_with_decimals emits has a non-empty
\* token0 address and a non-empty token1 address, and the emitted events are an
\* order-preserving subsequence of the historical records followed by the
\* real-time records.
C25_MintEventsInFetchOrder ==
    (pipeline = "mint" /\ pc = "done") =>
        /\ \A k \in 1..Len(processed) :
               /\ processed[k].token0.address \notin {None, <<>>}
               /\ processed[k].token1.address \notin {None, <<>>}
        /\ EventsFromSomeOf(processed, CombinedRecords(responses))

\* a historical response of a record with one address and a record with both,
\* a real-time response of another record with both: two events, in that order
C25_Witness ==
    /\ pipeline = "mint"
    /\ pc = "done"
    /\ Len(responses) = 2
    /\ Len(RecordsOf(responses[1])) = 2
    /\ Len(RecordsOf(responses[2])) = 1
    /\ ~HasBothTokens(responses[1].Calls[1])
    /\ Len(processed) = 2
    /\ processed[1] = MintEvent(responses[1].Calls[2], token_decimals)
    /\ processed[2] = MintEvent(responses[2].Calls[1], token_decimals)
    /\ processed[1] # processed[2]

\* C30: the historical fetch comes first and the real-time fetch second; a
\* failed fetch (the client returns {}) counts as a fetch of no records: the run
\* goes on with the records of the other fetch, takes the empty-batch path when
\* there are none at all, and never raises because of it.
C30_FailedFetchIsEmptyFetch ==
    /\ [](pipeline \in {"mint", "positions"} =>
              /\ Len(responses) = (CASE pc = "start" -> 0
                                     [] pc = "fetched" -> 1
                                     [] OTHER -> IF include_realtime THEN 2 ELSE 1)
              /\ Len(responses) >= 1 => Len(RecordsOf(responses[1])) <= MaxHistorical
              /\ Len(responses) = 2 => Len(RecordsOf(responses[2])) <= MaxRealtime
              /\ all_events = CombinedRecords(responses)
              /\ (pc \notin {"start", "fetched"} /\ CombinedRecords(responses) = <<>>)
                     => (pc \in {"collected", "returned"} /\ stages = {}
                                                         /\ processed = NoResult)
              /\ pc \in {"resolved", "done", "raised"} => CombinedRecords(responses) # <<>>)
    /\ [][(pipeline \in {"mint", "positions"} /\ responses' # responses) =>
              /\ responses' = Append(responses, responses'[Len(responses')])
              /\ pc' = (IF responses = <<>> THEN "fetched" ELSE "collected")]_vars

\* a run whose historical fetch failed and that made its one snapshot from the
\* record of the real-time fetch
C30_Witness ==
    /\ pipeline = "positions"
    /\ pc = "done"
    /\ Len(responses) = 2
    /\ responses[1].failed
    /\ ~responses[2].failed
    /\ Len(responses[2].Calls) = 1
    /\ Len(processed) = 1

-----------------------------------------------------------------------------
(* Properties of the burn pipeline *)

\* the bigInteger strings of the arguments named tokenId, in order
RECURSIVE TokenIds(_)
TokenIds(arguments) ==
    IF arguments = <<>> THEN <<>>
    ELSE (IF Head(arguments).Name = "tokenId" /\ Head(arguments).Value.tag = "bigInteger"
          THEN <<Head(arguments).Value.val>> ELSE <<>>) \o TokenIds(Tail(arguments))

\* the record has a tokenId and the one that wins is non-empty
HasTokenId(call) ==
    LET ids == TokenIds(call.Arguments) IN ids # <<>> /\ ids[Len(ids)] # <<>>

\* the records with a tokenId, in input order
RECURSIVE WithTokenId(_)
WithTokenId(calls) ==
    IF calls = <<>> THEN <<>>
    ELSE (IF HasTokenId(Head(calls)) THEN <<Head(calls)>> ELSE <<>>)
             \o WithTokenId(Tail(calls))

\* C29: the burn run emits one burn event for exactly the records that have an
\* argument named tokenId carrying a non-empty bigInteger string, in input
\* order and with tokenId equal to that string (the last one when there are
\* several); the other records are dropped and nothing is raised.
C29_BurnEventsByTokenId ==
    (pipeline = "burn" /\ pc # "import") =>
        /\ pc # "raised"
        /\ LET kept == WithTokenId(response)
           IN /\ Len(processed) = Len(kept)
              /\ \A k \in 1..Len(kept) :
                     LET ids == TokenIds(kept[k].Arguments)
                     IN /\ processed[k].tokenId = ids[Len(ids)]
                        /\ processed[k].transaction.from = kept[k].Transaction.From
                        /\ processed[k].block.time = kept[k].Block.Time

-----------------------------------------------------------------------------
(* analyze_top_creators on a batch and on the shards of a permutation of it *)

MaxShardEvents == 3

\* two positions of X, one of them worth 2^53 USD, and one position of Y
ShardCalls ==
    { Call(<<"X">>, TwoTo53 \o <<".", "0">>, <<"2">>, MintReturns(Big(<<"1", "0", "0">>)),
           MintArgs(Addr(<<"A">>), Addr(<<"B">>), Big(<<"5", "0", "0">>),
                    Big(<<"-", "1", "0">>), Big(<<"1", "0">>))),
      Call(<<"X">>, <<"1", ".", "0">>, <<"1">>, MintReturns(Big(<<"5", "0">>)),
           MintArgs(Addr(<<"B">>), Addr(<<"A">>), Big(<<"3", "0", "0", "0">>),
                    Big(<<"0">>), Big(<<"1", "0">>))),
      Call(<<"Y">>, <<"1", ".", "0">>, <<"3">>, MintReturns(Big(<<"2", "0", "0">>)),
           MintArgs(Addr(<<"A">>), Addr(<<"B">>), Big(<<"5", "0", "0">>),
                    Big(<<"-", "1", "0">>), Big(<<"1", "0">>))) }

\* the events in the order perm lists them
Permuted(events, perm) == [i \in 1..Len(events) |-> events[perm[i]]]

InitShards ==
    /\ pc = "start"
    /\ pipeline = "analyze_top_creators"
    /\ inputs \in {[creators_data |-> ExtractCreators(calls)] :
                      calls \in SeqsUpTo(ShardCalls, MaxShardEvents)}
    /\ output = NoResult
    /\ stages = {}
    /\ NoCreatorsRun
    /\ NoPipelineRun

\* analyze_top_creators(creators_data) on the batch, and on the two shards that
\* a cut of a permutation of the batch gives
CallAnalyzeShards ==
    /\ pc = "start"
    /\ pipeline = "analyze_top_creators"
    /\ \E perm \in Permutations(1..Len(inputs.creators_data)),
          cut \in 0..Len(inputs.creators_data) :
           LET events == Permuted(inputs.creators_data, perm)
           IN output' = [whole |-> AnalyzeTopCreators(inputs.creators_data),
                         first |-> AnalyzeTopCreators(SubSeq(events, 1, cut)),
                         second |-> AnalyzeTopCreators(SubSeq(events, cut + 1, Len(events)))]
    /\ pc' = "done"
    /\ UNCHANGED <<pipeline, inputs, stages>>
    /\ UNCHANGED creatorVars
    /\ UNCHANGED <<include_realtime, all_events, token_addresses, token_decimals, processed,
                 responses>>

SpecShards == InitShards /\ [][CallAnalyzeShards]_vars

\* the record of the address in a shard's map, the empty record when it has none
ShardStats(d, a) == IF HasKey(d, a) THEN Get(d, a) ELSE WithPairCount(NewStats)

EarlierTime(x, y) ==
    IF x = None THEN y ELSE IF y = None THEN x ELSE IF StrLess(y, x) THEN y ELSE x

LaterTime(x, y) ==
    IF x = None THEN y ELSE IF y = None THEN x ELSE IF StrLess(x, y) THEN y ELSE x

AddTiers(t1, t2) ==
    [f \in DOMAIN t1 \cup DOMAIN t2 |->
        (IF f \in DOMAIN t1 THEN t1[f] ELSE 0) + (IF f \in DOMAIN t2 THEN t2[f] ELSE 0)]

\* merging the shards gives the address the counts, sums, pairs, tiers and time
\* range the whole batch gives it
MergeAgreesButUsd(a) ==
    LET s1 == ShardStats(output.first, a)
        s2 == ShardStats(output.second, a)
        whole == Get(output.whole, a)
    IN /\ whole.total_positions = s1.total_positions + s2.total_positions
       /\ whole.total_liquidity = s1.total_liquidity + s2.total_liquidity
       /\ whole.unique_pairs = s1.unique_pairs \cup s2.unique_pairs
       /\ whole.fee_tiers = AddTiers(s1.fee_tiers, s2.fee_tiers)
       /\ whole.first_position_time
              = EarlierTime(s1.first_position_time, s2.first_position_time)
       /\ whole.last_position_time
              = LaterTime(s1.last_position_time, s2.last_position_time)

\* ... and the total_usd_value
MergeAgreesOnUsd(a) ==
    Get(output.whole, a).total_usd_value
        = FloatAdd(ShardStats(output.first, a).total_usd_value,
                   ShardStats(output.second, a).total_usd_value)

ShardsDone == pipeline = "analyze_top_creators" /\ pc = "done"

SameAddresses ==
    Range(Keys(output.whole)) = Range(Keys(output.first)) \cup Range(Keys(output.second))

\* C22: for any permutation of a batch and any cut of it into two shards,
\* folding the shards and merging the two maps (adding counters and totals,
\* uniting pair sets, adding fee histograms, taking the earlier first and the
\* later last time) gives every address the total_positions, total_liquidity,
\* total_usd_value, pair set, fee_tiers and first/last times that folding the
\* whole batch gives it.
C22_ShardsMergeToWhole ==
    ShardsDone =>
        /\ SameAddresses
        /\ \A a \in Range(Keys(output.whole)) : MergeAgreesButUsd(a) /\ MergeAgreesOnUsd(a)

\* the same without the total_usd_value
ShardsMergeButUsd ==
    ShardsDone =>
        /\ SameAddresses
        /\ \A a \in Range(Keys(output.whole)) : MergeAgreesButUsd(a)

=============================================================================
